---- MODULE Spec2Model ----
(***************************************************************************)
(* A model of the adaptive fetch-and-ingest pipeline of guru-news-scraper: *)
(*   scrapers/base/base_scraper.py    BaseScraper.get                      *)
(*   scrapers/base/hybrid_scraper.py  HybridScraper.fetch_html             *)
(*   core/rss_collector.py            collect                              *)
(*   scrapers/base/browser_scraper.py BrowserScraper                       *)
(*   core/article_fetcher.py          fetch_article_soup, shutdown         *)
(*   core/runner.py                   process_item, run_single_cycle,      *)
(*                                    run_loop, main                       *)
(*   config/portals.py                validate_portals                     *)
(*                                                                         *)
(* Python values are encoded as follows.  A str is a sequence of tokens    *)
(* (single characters for header values, words and blanks for titles and   *)
(* links); None is the one-token sequence None, which no str contains.     *)
(***************************************************************************)
EXTENDS Integers, Sequences, FiniteSets, TLC

VARIABLES
    \* ---- BaseScraper.get ------------------------------------------------
    get_pc,            \* "idle" | "loop" | "returned" | "raised"
    get_url,           \* the url of the call in progress
    attempt,           \* the loop variable of get
    last_resp,         \* the local last_resp of get
    get_ret,           \* the value get returned
    sleeps,            \* the durations get passed to time.sleep, in order
    outcomes,          \* what session.get did at each attempt, in order
    last_request_ts,   \* the keys of BaseScraper._last_request_ts
    \* ---- HybridScraper --------------------------------------------------
    hard_domains,      \* HybridScraper.hard_domains
    browser,           \* HybridScraper.browser: "none" | "live" | "closed"
    h_call,            \* the last fetch_html call: its arguments and inputs
    h_log,             \* the strategies that call invoked, in order
    h_ret,             \* what that call returned
    h_prev,            \* "first", or whether the call before it returned a document
    \* ---- runner / rss_collector ----------------------------------------
    PORTALS,           \* config.portals.PORTALS
    PARSERS,           \* core.runner.PARSERS: the portals with a parser
    seen_links,        \* utils.state_manager: the links marked seen
    run_pc,            \* the position of run_single_cycle / run_loop
    cycle,             \* the number of the cycle in progress
    db_inits,          \* calls of db.init_db so far
    feeds_left,        \* collect: the (portal, feed url) pairs still to load
    entries,           \* collect: the entries of the feed being read
    cur_portal,        \* collect: the portal the feed belongs to
    results,           \* collect: the list it returns
    emitted,           \* every link collect has emitted, over all cycles
    dropped,           \* what this collect call dropped: seen links, unusable entries
    todo,              \* run_single_cycle: the items still to process
    stats,             \* run_single_cycle: portal -> total/saved/skipped
    fetch_calls,       \* calls of fetch_article_soup so far
    store,             \* the insert_news calls made, in order
    item_log,          \* per processed item: link, inputs and outcome
    emitted_stats,     \* the SUMMARY the last finished cycle logged
    \* ---- article_fetcher / BrowserScraper ------------------------------
    playwright,        \* whether browser_scraper (playwright) can be imported
    BROWSER,           \* _BROWSER: 0 for None, else the number of an instance
    HYBRID_BY_PORTAL,  \* _HYBRID_BY_PORTAL: portal -> its HybridScraper
    instances,         \* the handles of every BrowserScraper entered so far
    svc_op,            \* the operation of the fetch service that ran last
    svc_call,          \* what fetch_article_soup did, if it ran last
    exit_call,         \* what BrowserScraper.__exit__ did, if it ran last
    shutdown_call,     \* what shutdown did, if it ran last
    \* ---- BrowserScraper.fetch_html -------------------------------------
    bf_pc,             \* "idle" | "loop" | "returned" | "raised"
    bf_page,           \* whether the scraper is entered (_page is not None)
    bf_max_retries,    \* BrowserScraper.max_retries of the instance
    bf_attempt,        \* the loop variable of fetch_html
    bf_sleeps,         \* the durations fetch_html passed to time.sleep
    bf_outcomes,       \* what the navigation did at each attempt, in order
    bf_ret,            \* the value fetch_html returned
    \* ---- runner.main ---------------------------------------------------
    main_pc,           \* "off" | "start" | "single" | "loop" | "exited" | "raised"
    interval,          \* args.interval: absent (None) or the int given
    loop_sleeps,       \* the durations run_loop passed to time.sleep
    \* ---- callers of fetch_article_soup ---------------------------------
    threads            \* per calling thread: where its call stands

getVars == <<get_pc, get_url, attempt, last_resp, get_ret, sleeps, outcomes,
             last_request_ts>>
hybVars == <<hard_domains, browser, h_call, h_log, h_ret, h_prev>>
runVars == <<PORTALS, PARSERS, seen_links, run_pc, cycle, db_inits,
             feeds_left, entries, cur_portal, results, emitted, dropped, todo,
             stats, fetch_calls, store, item_log, emitted_stats>>
svcVars == <<playwright, BROWSER, HYBRID_BY_PORTAL, instances, svc_op,
             svc_call, exit_call, shutdown_call>>
bfVars == <<bf_pc, bf_page, bf_max_retries, bf_attempt, bf_sleeps, bf_outcomes,
            bf_ret>>
mainVars == <<main_pc, interval, loop_sleeps>>
thrVars == <<threads>>
extVars == <<bfVars, mainVars, thrVars>>
vars == <<getVars, hybVars, runVars, svcVars, extVars>>

(***************************************************************************)
(* Python values                                                           *)
(***************************************************************************)
None == <<"<None>">>
\* a truthy value that is no str (an int, a list, a bs4 Tag)
NonStr == <<"<NonStr>">>

IsStr(v) == v # None /\ v # NonStr
\* bool(v) for v a str, None or NonStr
Truthy(v) == v # None /\ v # <<>>

RECURSIVE lstrip(_)
lstrip(s) == IF s # <<>> /\ Head(s) = " " THEN lstrip(Tail(s)) ELSE s

RECURSIVE rstrip(_)
rstrip(s) ==
    IF s # <<>> /\ s[Len(s)] = " " THEN rstrip(SubSeq(s, 1, Len(s) - 1)) ELSE s

\* str.strip()
strip(s) == rstrip(lstrip(s))

Digits == {"0", "1", "2", "3", "4", "5", "6", "7", "8", "9"}

DigitVal(c) ==
    CASE c = "0" -> 0 [] c = "1" -> 1 [] c = "2" -> 2 [] c = "3" -> 3
      [] c = "4" -> 4 [] c = "5" -> 5 [] c = "6" -> 6 [] c = "7" -> 7
      [] c = "8" -> 8 [] c = "9" -> 9

RECURSIVE DecVal(_)
DecVal(s) ==
    IF s = <<>> THEN 0
    ELSE 10 * DecVal(SubSeq(s, 1, Len(s) - 1)) + DigitVal(s[Len(s)])

Unsigned(s) ==
    LET t == strip(s) IN
    IF t # <<>> /\ Head(t) \in {"+", "-"} THEN Tail(t) ELSE t

\* int(s) for a str s raises ValueError unless s is an optionally signed
\* run of digits, blanks around it allowed
IntRaises(s) ==
    LET u == Unsigned(s) IN u = <<>> \/ \E i \in 1..Len(u) : u[i] \notin Digits

IntVal(s) ==
    LET t == strip(s) IN
    IF Head(t) = "-" THEN 0 - DecVal(Unsigned(s)) ELSE DecVal(Unsigned(s))

(***************************************************************************)
(* URLs and domains.  A host is a sequence of labels, "www." among them;   *)
(* the fetch strategies read nothing of a url but its host.                *)
(***************************************************************************)
LowerLabel(l) ==
    CASE l = "WWW." -> "www."
      [] l = "BBC.com" -> "bbc.com"
      [] OTHER -> l

RECURSIVE lowerHost(_)
lowerHost(h) ==
    IF h = <<>> THEN <<>> ELSE <<LowerLabel(Head(h))>> \o lowerHost(Tail(h))

RECURSIVE dropWww(_)
dropWww(h) ==
    IF h = <<>> THEN <<>>
    ELSE IF Head(h) = "www." THEN dropWww(Tail(h))
    ELSE <<Head(h)>> \o dropWww(Tail(h))

\* base_scraper.normalize_domain: netloc.lower().replace("www.", "").strip()
normalize_domain(netloc) == strip(dropWww(lowerHost(netloc)))

(***************************************************************************)
(* Response bodies: a length and the phrases the text contains.            *)
(***************************************************************************)
LowerPhrase(p) ==
    CASE p = "Just a Moment" -> "just a moment"
      [] p = "CAPTCHA" -> "captcha"
      [] OTHER -> p

\* needle in phrase, for the phrases of the model
InPhrase(needle, p) ==
    \/ needle = p
    \/ needle = "/cdn-cgi/" /\ p = "/cdn-cgi/challenge-platform"

\* needle in text.lower()
InLower(needle, body) == \E p \in body.frags : InPhrase(needle, LowerPhrase(p))

Base_signals ==
    {"cloudflare", "attention required", "verify you are human",
     "checking your browser", "just a moment", "are you a robot",
     "access denied", "/cdn-cgi/", "bot detection", "captcha"}

\* the scan done on the text as it came, not lower-cased
Base_is_block_page_as_is(body) ==
    \E s \in Base_signals : \E p \in body.frags : InPhrase(s, p)

\* BaseScraper._is_block_page, on the lower-cased text
Base_is_block_page(body) == \E s \in Base_signals : InLower(s, body)

EmptyBody == [len |-> 0, frags |-> {}]
CleanBody == [len |-> 5000, frags |-> {"article text"}]
ShortBody == [len |-> 299, frags |-> {"article text"}]
EdgeBody == [len |-> 300, frags |-> {"article text"}]
WafBody == [len |-> 5000, frags |-> {"Just a Moment"}]
RobotBody == [len |-> 5000, frags |-> {"are you a robot"}]
Bodies == {EmptyBody, CleanBody, ShortBody, EdgeBody, WafBody, RobotBody}

(***************************************************************************)
(* BaseScraper.get                                                         *)
(***************************************************************************)
max_retries == 3

Absent == <<"<absent>">>

\* a requests.Response; suspected_block is "unset" until get sets it
Resp(st, b, ra, flag) ==
    [kind |-> "resp", status |-> st, body |-> b, retry_after |-> ra,
     suspected_block |-> flag]

NoResp == [kind |-> "none", status |-> 0, body |-> EmptyBody,
           retry_after |-> Absent, suspected_block |-> "unset"]

\* requests.RequestException raised by session.get
TransportError == [kind |-> "exc", status |-> 0, body |-> EmptyBody,
                   retry_after |-> Absent, suspected_block |-> "unset"]

RetryAfterValues ==
    {Absent, <<>>, <<"0">>, <<"5">>, <<" ", "7">>, <<"-", "5">>,
     <<"W", "e", "d">>}

\* what one session.get can do
Attempts ==
    {TransportError}
    \cup {Resp(200, b, Absent, "unset") : b \in {CleanBody, WafBody, EmptyBody}}
    \cup {Resp(st, EmptyBody, ra, "unset") :
              st \in {403, 429}, ra \in RetryAfterValues}
    \cup {Resp(500, CleanBody, Absent, "unset")}

Hosts == {<<"WWW.", "BBC.com">>, <<"bbc.com">>, <<"example.com">>}

\* resp.headers.get("Retry-After", 0) or 0
HeaderOrZero(ra) == IF ra = Absent \/ ra = <<>> THEN <<"0">> ELSE ra

Flagged(r, f) == [r EXCEPT !.suspected_block = f]

\* lines 200-206: the fabricated response
Dummy == Resp(599, EmptyBody, Absent, "true")

\* the delay with the Retry-After header ignored
retry_delay_ignores_header(ra, k) == 4 * k

\* the delay with a back-off that does not grow
retry_delay_flat(ra, k) ==
    IF IntVal(HeaderOrZero(ra)) > 0 THEN IntVal(HeaderOrZero(ra)) ELSE 4

\* lines 163-177: the delay slept after attempt k got a 403 or 429 whose
\* Retry-After header int() accepts
retry_delay(ra, k) ==
    IF IntVal(HeaderOrZero(ra)) > 0 THEN IntVal(HeaderOrZero(ra)) ELSE 4 * k

\* the delay after an error with a back-off that does not grow
error_delay_flat(k) == 2

\* lines 182 and 191: the delay slept after attempt k got another non-200
\* status or a transport exception
error_delay(k) == 2 * k

\* get, lines 116-121
GetStart(host) ==
    /\ get_pc = "idle"
    /\ get_pc' = "loop"
    /\ get_url' = host
    /\ attempt' = 1
    /\ last_resp' = NoResp
    /\ get_ret' = NoResp
    /\ sleeps' = <<>>
    /\ outcomes' = <<>>
    /\ UNCHANGED last_request_ts
    /\ UNCHANGED <<hybVars, runVars, svcVars, extVars>>

\* one iteration of the for loop of get, lines 123-191
GetAttempt(o) ==
    /\ get_pc = "loop"
    /\ attempt <= max_retries
    /\ outcomes' = Append(outcomes, o)
    /\ UNCHANGED get_url
    /\ IF o.kind = "exc"
       THEN /\ sleeps' = Append(sleeps, error_delay(attempt))
            /\ attempt' = attempt + 1
            /\ UNCHANGED <<get_pc, last_resp, get_ret, last_request_ts>>
       ELSE /\ last_request_ts' = last_request_ts \cup {normalize_domain(get_url)}
            /\ IF o.status = 200
               THEN /\ get_pc' = "returned"
                    /\ get_ret' = Flagged(o, IF Base_is_block_page(o.body)
                                              THEN "true" ELSE "false")
                    /\ last_resp' = get_ret'
                    /\ UNCHANGED <<sleeps, attempt>>
               ELSE IF o.status \in {403, 429}
               THEN IF IntRaises(HeaderOrZero(o.retry_after))
                    THEN /\ get_pc' = "raised"
                         /\ last_resp' = o
                         /\ UNCHANGED <<sleeps, attempt, get_ret>>
                    ELSE /\ sleeps' = Append(sleeps,
                               retry_delay(o.retry_after, attempt))
                         /\ last_resp' = o
                         /\ attempt' = attempt + 1
                         /\ UNCHANGED <<get_pc, get_ret>>
               ELSE /\ sleeps' = Append(sleeps, error_delay(attempt))
                    /\ last_resp' = Flagged(o, "true")
                    /\ attempt' = attempt + 1
                    /\ UNCHANGED <<get_pc, get_ret>>
    /\ UNCHANGED <<hybVars, runVars, svcVars, extVars>>

\* GetGiveUp with the fabricated response forgotten: last_resp is returned
\* as it is, None when no response ever came
GetGiveUp_returns_last_resp ==
    /\ get_pc = "loop"
    /\ attempt > max_retries
    /\ get_pc' = "returned"
    /\ get_ret' = last_resp
    /\ UNCHANGED <<get_url, attempt, last_resp, sleeps, outcomes,
                   last_request_ts>>
    /\ UNCHANGED <<hybVars, runVars, svcVars, extVars>>

\* get, lines 193-206: out of retries
GetGiveUp ==
    /\ get_pc = "loop"
    /\ attempt > max_retries
    /\ get_pc' = "returned"
    /\ get_ret' = IF last_resp.kind # "none" THEN Flagged(last_resp, "true")
                  ELSE Dummy
    /\ UNCHANGED <<get_url, attempt, last_resp, sleeps, outcomes,
                   last_request_ts>>
    /\ UNCHANGED <<hybVars, runVars, svcVars, extVars>>

\* the caller takes the result (or the exception); the scraper is reused
GetDone ==
    /\ get_pc \in {"returned", "raised"}
    /\ get_pc' = "idle"
    /\ UNCHANGED <<get_url, attempt, last_resp, get_ret, sleeps, outcomes,
                   last_request_ts>>
    /\ UNCHANGED <<hybVars, runVars, svcVars, extVars>>

(***************************************************************************)
(* HybridScraper                                                           *)
(***************************************************************************)
NoDoc == [kind |-> "none", body |-> EmptyBody]

\* BeautifulSoup(html, "html.parser")
Soup(b) == [kind |-> "soup", body |-> b]

Hybrid_signals ==
    {"access denied", "cloudflare", "verify you are human",
     "checking your browser", "bot detection", "just a moment", "/cdn-cgi/",
     "captcha"}

\* _probably_blocked_html with the length test off by one
probably_blocked_html_le300(html) ==
    \/ html.len = 0
    \/ html.len <= 300
    \/ \E s \in Hybrid_signals : InLower(s, html)

\* HybridScraper._probably_blocked_html
probably_blocked_html(html) ==
    \/ html.len = 0
    \/ html.len < 300
    \/ \E s \in Hybrid_signals : InLower(s, html)

\* _get_netloc without the normalization
get_netloc_raw(url) == url

\* HybridScraper._get_netloc
get_netloc(url) == normalize_domain(url)

\* HybridScraper.__init__, lines 44-48
Hybrid_init_hard_domains(raw) == {normalize_domain(raw[i]) : i \in 1..Len(raw)}

\* HybridScraper._fetch_with_base on what base.get did: the calls made, the
\* soup and the blocked flag
fetch_with_base(b) ==
    IF b.kind = "exc"
    THEN [log |-> <<"base.get">>, soup |-> NoDoc, blocked |-> TRUE]
    ELSE IF b.suspected_block = "true"
    THEN [log |-> <<"base.get">>, soup |-> NoDoc, blocked |-> TRUE]
    ELSE IF b.status # 200
    THEN [log |-> <<"base.get">>, soup |-> NoDoc, blocked |-> TRUE]
    ELSE IF probably_blocked_html(b.body)
    THEN [log |-> <<"base.get">>, soup |-> NoDoc, blocked |-> TRUE]
    ELSE [log |-> <<"base.get">>, soup |-> Soup(b.body), blocked |-> FALSE]

\* HybridScraper._fetch_with_browser on what browser.fetch_html did
fetch_with_browser(br, w) ==
    IF br = "none"
    THEN [log |-> <<"fetch_with_browser">>, soup |-> NoDoc]
    ELSE IF w.kind = "exc"
    THEN [log |-> <<"fetch_with_browser", "browser.fetch_html">>, soup |-> NoDoc]
    ELSE IF w.kind = "none" \/ w.body.len = 0
    THEN [log |-> <<"fetch_with_browser", "browser.fetch_html">>, soup |-> NoDoc]
    ELSE [log |-> <<"fetch_with_browser", "browser.fetch_html">>,
          soup |-> Soup(w.body)]

\* HybridScraper.fetch_html: the calls made, the value returned, and whether
\* it raised
Hybrid_fetch_html(hd, br, url, mode, b, w) ==
    LET netloc == get_netloc(url)
        viaBrowser == fetch_with_browser(br, w)
        viaBase == fetch_with_base(b)
    IN  IF mode \notin {"simple", "browser", "auto"}
        THEN [log |-> <<>>, ret |-> NoDoc, raised |-> TRUE]
        ELSE IF mode = "browser"
        THEN [log |-> viaBrowser.log, ret |-> viaBrowser.soup, raised |-> FALSE]
        ELSE IF mode = "auto" /\ netloc \in hd
        THEN [log |-> viaBrowser.log, ret |-> viaBrowser.soup, raised |-> FALSE]
        ELSE IF mode = "simple"
        THEN [log |-> viaBase.log, ret |-> viaBase.soup, raised |-> FALSE]
        ELSE IF viaBase.blocked \/ viaBase.soup.kind = "none"
        THEN [log |-> viaBase.log \o viaBrowser.log, ret |-> viaBrowser.soup,
              raised |-> FALSE]
        ELSE [log |-> viaBase.log, ret |-> viaBase.soup, raised |-> FALSE]

HybridModes == {"simple", "browser", "auto", "bogus"}

\* what base.get can hand the selector: an exception, or a response with
\* any flag
BaseOutcomes ==
    {TransportError, Dummy, Resp(200, CleanBody, Absent, "unset"),
     Resp(200, CleanBody, Absent, "true"), Resp(500, CleanBody, Absent, "false")}
    \cup {Resp(200, b, Absent, "false") : b \in Bodies \ {EmptyBody}}

\* what browser.fetch_html can do on an entered browser
BrowserOutcomes ==
    {[kind |-> "html", body |-> CleanBody], [kind |-> "html", body |-> EmptyBody],
     [kind |-> "exc", body |-> EmptyBody]}

\* a browser that is not entered raises RuntimeError, line 212-213
BrowserRaises == [kind |-> "exc", body |-> EmptyBody]

HardDomainConfigs ==
    {<<>>, << <<"www.", "bbc.com">> >>, << <<"news.", "bbc.com">> >>}

\* the hosts of the urls the selector is called with; in the last one
\* "www." is not at the start
HybridHosts == Hosts \cup {<<"news.", "www.", "bbc.com">>}

NoCall == [url |-> <<>>, mode |-> "", b |-> NoResp, w |-> BrowserRaises,
           n |-> 0, raised |-> FALSE]

\* one fetch_html call on the selector
HybridFetchHtml(url, mode, b, w) ==
    LET r == Hybrid_fetch_html(hard_domains, browser, url, mode, b, w) IN
    /\ browser = "closed" => w = BrowserRaises
    /\ h_call' = [url |-> url, mode |-> mode, b |-> b, w |-> w, n |-> 1,
                  raised |-> r.raised]
    /\ h_log' = r.log
    /\ h_ret' = r.ret
    /\ h_prev' = IF h_call.n = 0 THEN "first" ELSE h_ret.kind
    /\ UNCHANGED <<hard_domains, browser>>
    /\ UNCHANGED <<getVars, runVars, svcVars, extVars>>

(***************************************************************************)
(* config/portals.py.  A portal's config is a record; a key the dict lacks *)
(* has the value Missing.                                                  *)
(***************************************************************************)
Missing == "<missing>"

Cfg(mode, rss, hd, enabled) ==
    [scrape_mode |-> mode, rss |-> rss, hard_domains |-> hd, enabled |-> enabled]

\* the values of a list-typed key: a list, something that is no list, or
\* no such key
List(l) == [kind |-> "list", items |-> l]
NonList == [kind |-> "nonlist", items |-> <<>>]
NoKey == [kind |-> "missing", items |-> <<>>]

\* the {} that PORTALS.get(source, {}) gives for an unknown source
EmptyCfg == Cfg(Missing, NoKey, NoKey, Missing)

allowed_modes == {"simple", "hybrid", "browser", "rss_only"}

\* the order of the keys of PORTALS
PortalOrder == <<"bbc", "prothomalo">>

\* validate_portals without the hard_domains check
validate_portals_no_hd_check(portals) ==
    \E pid \in DOMAIN portals :
        \/ portals[pid].scrape_mode = Missing
        \/ portals[pid].scrape_mode \notin allowed_modes
        \/ portals[pid].rss.kind # "list"

\* validate_portals raises ValueError
validate_portals(portals) ==
    \E pid \in DOMAIN portals :
        \/ portals[pid].scrape_mode = Missing
        \/ portals[pid].scrape_mode \notin allowed_modes
        \/ portals[pid].rss.kind # "list"
        \/ portals[pid].hard_domains.kind = "nonlist"

\* cfg.get("enabled", default)
GetEnabled(cfg, default) ==
    IF cfg.enabled = Missing THEN default ELSE cfg.enabled = "true"

\* PORTALS.get(source, {})
PortalCfg(portals, source) ==
    IF source \in DOMAIN portals THEN portals[source] ELSE EmptyCfg

RECURSIVE FeedsOf(_, _)
FeedsOf(pid, urls) ==
    IF urls = <<>> THEN <<>>
    ELSE <<[portal |-> pid, url |-> Head(urls)]>> \o FeedsOf(pid, Tail(urls))

\* the (portal, feed url) pairs collect visits, in its order:
\* iter_enabled_portals, then meta.get("rss") or []
RECURSIVE EnabledFeeds(_, _)
EnabledFeeds(portals, order) ==
    IF order = <<>> THEN <<>>
    ELSE LET pid == Head(order)
             mine == IF pid \in DOMAIN portals
                        /\ GetEnabled(portals[pid], FALSE)
                     THEN FeedsOf(pid, portals[pid].rss.items)
                     ELSE <<>>
         IN  mine \o EnabledFeeds(portals, Tail(order))

(***************************************************************************)
(* core/rss_collector.py                                                   *)
(***************************************************************************)
Entities == {"&nbsp;", "&ensp;", "&emsp;", "&mdash;", "&ndash;"}

Replacement(tok) ==
    CASE tok \in {"&nbsp;", "&ensp;", "&emsp;"} -> " "
      [] tok \in {"&mdash;", "&ndash;"} -> "-"
      [] OTHER -> tok

RECURSIVE replaceEntities(_)
replaceEntities(s) ==
    IF s = <<>> THEN <<>>
    ELSE <<Replacement(Head(s))>> \o replaceEntities(Tail(s))

\* _clean_rss_text
clean_rss_text(text) ==
    IF ~IsStr(text) THEN None
    ELSE LET t == replaceEntities(strip(text)) IN IF t = <<>> THEN None ELSE t

\* a or b
Or(a, b) == IF Truthy(a) THEN a ELSE b

\* _parse_rss_date for an entry without structured time fields
parse_rss_date(entry) == IF Truthy(entry.published) THEN entry.published ELSE None

NoItem == [source |-> "", link |-> None, rss_date |-> None, title |-> None,
           summary |-> None, description |-> None]

\* _entry_to_item; NoItem stands for None
entry_to_item(portal_id, entry) ==
    IF ~Truthy(entry.link) THEN NoItem
    ELSE IF strip(entry.link) = <<>> THEN NoItem
    ELSE LET summary == clean_rss_text(Or(entry.summary, entry.description)) IN
         [source |-> portal_id, link |-> strip(entry.link),
          rss_date |-> parse_rss_date(entry),
          title |-> clean_rss_text(entry.title),
          summary |-> summary, description |-> summary]

\* utils.state_manager.seen
seen(marked, link) == link \in marked

\* utils.state_manager.mark_seen
mark_seen(marked, link) == marked \cup {link}

\* collect, lines 248-252 with the loop headers of lines 252-262
CollectStart ==
    /\ run_pc = "collect"
    /\ run_pc' = "collecting"
    /\ results' = <<>>
    /\ feeds_left' = EnabledFeeds(PORTALS, PortalOrder)
    /\ entries' = <<>>
    /\ dropped' = [seen |-> {}, unusable |-> FALSE]
    /\ UNCHANGED <<PORTALS, PARSERS, seen_links, cycle, db_inits, cur_portal,
                   emitted, todo, stats, fetch_calls, store, item_log,
                   emitted_stats>>
    /\ UNCHANGED <<getVars, hybVars, svcVars, extVars>>

\* collect, lines 262-274: the next feed url is loaded; feed is the list of
\* its entries, or <<>> when _load_feed returned None
CollectLoadFeed(feed) ==
    /\ run_pc = "collecting"
    /\ entries = <<>>
    /\ feeds_left # <<>>
    /\ cur_portal' = Head(feeds_left).portal
    /\ feeds_left' = Tail(feeds_left)
    /\ entries' = feed
    /\ UNCHANGED <<PORTALS, PARSERS, seen_links, run_pc, cycle, db_inits,
                   results, emitted, dropped, todo, stats, fetch_calls, store,
                   item_log, emitted_stats>>
    /\ UNCHANGED <<getVars, hybVars, svcVars, extVars>>

\* CollectEntry without the seen() test of lines 285-287
CollectEntry_no_seen_check ==
    /\ run_pc = "collecting"
    /\ entries # <<>>
    /\ entries' = Tail(entries)
    /\ LET item == entry_to_item(cur_portal, Head(entries)) IN
       IF item = NoItem
       THEN /\ dropped' = [dropped EXCEPT !.unusable = TRUE]
            /\ UNCHANGED <<seen_links, results, emitted>>
       ELSE /\ seen_links' = mark_seen(seen_links, item.link)
            /\ results' = Append(results, item)
            /\ emitted' = Append(emitted, item.link)
            /\ UNCHANGED dropped
    /\ UNCHANGED <<PORTALS, PARSERS, run_pc, cycle, db_inits, feeds_left,
                   cur_portal, todo, stats, fetch_calls, store, item_log,
                   emitted_stats>>
    /\ UNCHANGED <<getVars, hybVars, svcVars, extVars>>

\* CollectEntry without the mark_seen() call of line 289
CollectEntry_no_mark_seen ==
    /\ run_pc = "collecting"
    /\ entries # <<>>
    /\ entries' = Tail(entries)
    /\ LET item == entry_to_item(cur_portal, Head(entries)) IN
       IF item = NoItem
       THEN /\ dropped' = [dropped EXCEPT !.unusable = TRUE]
            /\ UNCHANGED <<seen_links, results, emitted>>
       ELSE IF seen(seen_links, item.link)
       THEN /\ dropped' = [dropped EXCEPT !.seen = @ \cup {item.link}]
            /\ UNCHANGED <<seen_links, results, emitted>>
       ELSE /\ seen_links' = seen_links
            /\ results' = Append(results, item)
            /\ emitted' = Append(emitted, item.link)
            /\ UNCHANGED dropped
    /\ UNCHANGED <<PORTALS, PARSERS, run_pc, cycle, db_inits, feeds_left,
                   cur_portal, todo, stats, fetch_calls, store, item_log,
                   emitted_stats>>
    /\ UNCHANGED <<getVars, hybVars, svcVars, extVars>>

\* collect, lines 276-299: one entry of the feed
CollectEntry ==
    /\ run_pc = "collecting"
    /\ entries # <<>>
    /\ entries' = Tail(entries)
    /\ LET item == entry_to_item(cur_portal, Head(entries)) IN
       IF item = NoItem
       THEN /\ dropped' = [dropped EXCEPT !.unusable = TRUE]
            /\ UNCHANGED <<seen_links, results, emitted>>
       ELSE IF seen(seen_links, item.link)
       THEN /\ dropped' = [dropped EXCEPT !.seen = @ \cup {item.link}]
            /\ UNCHANGED <<seen_links, results, emitted>>
       ELSE /\ seen_links' = mark_seen(seen_links, item.link)
            /\ results' = Append(results, item)
            /\ emitted' = Append(emitted, item.link)
            /\ UNCHANGED dropped
    /\ UNCHANGED <<PORTALS, PARSERS, run_pc, cycle, db_inits, feeds_left,
                   cur_portal, todo, stats, fetch_calls, store, item_log,
                   emitted_stats>>
    /\ UNCHANGED <<getVars, hybVars, svcVars, extVars>>

(***************************************************************************)
(* core/runner.py.  A link is a sequence of tokens: its scheme and host    *)
(* as one token, then the characters and words of its path.                *)
(***************************************************************************)
SchemeHosts == {"https://example.com", "https://www.bbc.com"}

RECURSIVE upTo(_, _)
\* the tokens of s before the first one in stops
upTo(s, stops) ==
    IF s = <<>> \/ Head(s) \in stops THEN <<>>
    ELSE <<Head(s)>> \o upTo(Tail(s), stops)

\* urlparse(url).path
UrlPath(url) ==
    upTo(IF url # <<>> /\ Head(url) \in SchemeHosts THEN Tail(url) ELSE url,
         {"?", "#"})

RECURSIVE rstripSlash(_)
rstripSlash(s) ==
    IF s # <<>> /\ s[Len(s)] = "/" THEN rstripSlash(SubSeq(s, 1, Len(s) - 1))
    ELSE s

RECURSIVE lastSegment(_)
\* s.split("/")[-1]
lastSegment(s) ==
    IF \E i \in 1..Len(s) : s[i] = "/" THEN lastSegment(Tail(s)) ELSE s

RECURSIVE dashesToBlanks(_)
dashesToBlanks(s) ==
    IF s = <<>> THEN <<>>
    ELSE <<IF Head(s) \in {"-", "_"} THEN " " ELSE Head(s)>>
             \o dashesToBlanks(Tail(s))

\* tok[0].upper() + tok[1:]
Capitalized(tok) ==
    CASE tok = "poison" -> "Poison"
      [] tok = "news" -> "News"
      [] tok = "flood" -> "Flood"
      [] OTHER -> tok

\* _title_from_url
title_from_url(url) ==
    LET seg == lastSegment(rstripSlash(UrlPath(url)))
        stem == IF \E i \in 1..Len(seg) : seg[i] = "." THEN upTo(seg, {"."})
                ELSE seg
        slug == strip(dashesToBlanks(stem))
    IN  IF slug = <<>> THEN None
        ELSE <<Capitalized(Head(slug))>> \o Tail(slug)

\* isinstance(val, str) and val.strip()
StrAndNotBlank(val) == IsStr(val) /\ strip(val) # <<>>

\* _derive_title with the summary tried before the title
derive_title_summary_first(item) ==
    IF StrAndNotBlank(item.summary) THEN strip(item.summary)
    ELSE IF StrAndNotBlank(item.title) THEN strip(item.title)
    ELSE IF StrAndNotBlank(item.description) THEN strip(item.description)
    ELSE IF IsStr(item.link) /\ item.link # <<>>
            /\ Truthy(title_from_url(item.link))
    THEN title_from_url(item.link)
    ELSE None

\* _derive_title
derive_title(item) ==
    IF StrAndNotBlank(item.title) THEN strip(item.title)
    ELSE IF StrAndNotBlank(item.summary) THEN strip(item.summary)
    ELSE IF StrAndNotBlank(item.description) THEN strip(item.description)
    ELSE IF IsStr(item.link) /\ item.link # <<>>
            /\ Truthy(title_from_url(item.link))
    THEN title_from_url(item.link)
    ELSE None

\* process_item, lines 247-252
rss_summary_of(item) ==
    IF StrAndNotBlank(item.summary) THEN strip(item.summary)
    ELSE IF StrAndNotBlank(item.description) THEN strip(item.description)
    ELSE None

BLOCK_PLACEHOLDER_TITLES == {<<"Sorry, you have been blocked">>}

\* what fetch_article_soup did: a document, None, or an exception
FetchOutcomes == {"soup", "none", "exc"}

\* what parser_fn(soup) did: raised, returned None or {} ("falsy"), a
\* dict, or a truthy value that is no dict ("nondict")
Parsed(kind, title, body, author, pub_date, summary) ==
    [kind |-> kind, title |-> title, body |-> body, author |-> author,
     pub_date |-> pub_date, summary |-> summary]

ParserRaised == Parsed("exc", None, None, None, None, None)
ParsedFalsy == Parsed("falsy", None, None, None, None, None)
ParsedNonDict == Parsed("nondict", None, None, None, None, None)
NotParsed == Parsed("unused", None, None, None, None, None)

\* the arguments of one db.insert_news call
Insert(portal, url, title, content, topic, pub_date, author, article_pub_date, summary) ==
    [portal |-> portal, url |-> url, title |-> title, content |-> content,
     topic |-> topic, pub_date |-> pub_date, author |-> author,
     article_pub_date |-> article_pub_date, summary |-> summary]

NoInsert == Insert("", None, None, None, None, None, None, None, None)

\* save_article_to_db with the topic the comment of line 212 suggests
save_article_to_db_topic_unknown(portal, link, title, body, rss_date, author, article_pub_date, summary) ==
    Insert(portal, link, title, body, <<"unknown">>, rss_date, author,
           article_pub_date, summary)

\* save_article_to_db: topic is always None
save_article_to_db(portal, link, title, body, rss_date, author, article_pub_date, summary) ==
    Insert(portal, link, title, body, None, rss_date, author,
           article_pub_date, summary)

\* the outcome of process_item: "saved" (True), "skipped" (False) or
\* "raised"; whether fetch_article_soup and the parser were called; the
\* fields as resolved at line 323; the insert_news call, if one was made
Outcome(result, fetched, parsed, title, body, author, date, summary, ins) ==
    [result |-> result, fetched |-> fetched, parsed |-> parsed,
     r_title |-> title, r_body |-> body, r_author |-> author,
     r_date |-> date, r_summary |-> summary, insert |-> ins]

\* guard_validate_save with a guard that keeps the parsed body
guard_validate_save_keeps_body(item, rss_title, rss_summary, fetched, parsed, title, body, author, date, summary, ok) ==
    LET res(result, ins) ==
            Outcome(result, fetched, parsed, title, body, author, date,
                    summary, ins)
        hit == Truthy(title) /\ strip(title) \in BLOCK_PLACEHOLDER_TITLES
        title1 == IF hit THEN rss_title ELSE title
        summary1 == IF hit THEN rss_summary ELSE summary
        fallback == title_from_url(item.link)
        title2 == IF ~Truthy(title1) /\ Truthy(fallback) THEN fallback
                  ELSE title1
    IN  IF title = NonStr
        THEN res("raised", NoInsert)
        ELSE IF hit /\ (~Truthy(title1)
                        \/ strip(title1) \in BLOCK_PLACEHOLDER_TITLES)
        THEN res("skipped", NoInsert)
        ELSE IF ~Truthy(title2) /\ ~Truthy(body)
        THEN res("skipped", NoInsert)
        ELSE res(IF ok THEN "saved" ELSE "skipped",
                 save_article_to_db(item.source, item.link, title2, body,
                                    item.rss_date, author, date, summary1))

\* guard_validate_save without the validation of lines 351-353
guard_validate_save_unvalidated(item, rss_title, rss_summary, fetched, parsed, title, body, author, date, summary, ok) ==
    LET res(result, ins) ==
            Outcome(result, fetched, parsed, title, body, author, date,
                    summary, ins)
        hit == Truthy(title) /\ strip(title) \in BLOCK_PLACEHOLDER_TITLES
        title1 == IF hit THEN rss_title ELSE title
        body1 == IF hit THEN None ELSE body
        summary1 == IF hit THEN rss_summary ELSE summary
        fallback == title_from_url(item.link)
        title2 == IF ~Truthy(title1) /\ Truthy(fallback) THEN fallback
                  ELSE title1
    IN  IF title = NonStr
        THEN res("raised", NoInsert)
        ELSE IF hit /\ (~Truthy(title1)
                        \/ strip(title1) \in BLOCK_PLACEHOLDER_TITLES)
        THEN res("skipped", NoInsert)
        ELSE res(IF ok THEN "saved" ELSE "skipped",
                 save_article_to_db(item.source, item.link, title2, body1,
                                    item.rss_date, author, date, summary1))

\* process_item, lines 324-371, from the fields resolved before
guard_validate_save(item, rss_title, rss_summary, fetched, parsed, title, body, author, date, summary, ok) ==
    LET res(result, ins) ==
            Outcome(result, fetched, parsed, title, body, author, date,
                    summary, ins)
        hit == Truthy(title) /\ strip(title) \in BLOCK_PLACEHOLDER_TITLES
        title1 == IF hit THEN rss_title ELSE title
        body1 == IF hit THEN None ELSE body
        summary1 == IF hit THEN rss_summary ELSE summary
        fallback == title_from_url(item.link)
        title2 == IF ~Truthy(title1) /\ Truthy(fallback) THEN fallback
                  ELSE title1
    IN  IF title = NonStr
        THEN res("raised", NoInsert)
        ELSE IF hit /\ (~Truthy(title1)
                        \/ strip(title1) \in BLOCK_PLACEHOLDER_TITLES)
        THEN res("skipped", NoInsert)
        ELSE IF ~Truthy(title2) /\ ~Truthy(body1)
        THEN res("skipped", NoInsert)
        ELSE res(IF ok THEN "saved" ELSE "skipped",
                 save_article_to_db(item.source, item.link, title2, body1,
                                    item.rss_date, author, date, summary1))

Merged(raised, title, body, author, date, summary) ==
    [raised |-> raised, title |-> title, body |-> body, author |-> author,
     date |-> date, summary |-> summary]

\* parse_and_merge without the try/except around the parser call
parse_and_merge_uncaught(pr, rss_title, rss_summary) ==
    IF pr.kind \in {"nondict", "exc"}
    THEN Merged(TRUE, None, None, None, None, None)
    ELSE IF pr.kind = "falsy"
    THEN Merged(FALSE, rss_title, None, None, None, rss_summary)
    ELSE Merged(FALSE, Or(pr.title, rss_title), pr.body, pr.author,
                pr.pub_date, Or(pr.summary, rss_summary))

\* parse_and_merge with the feed summary standing in for a missing body
parse_and_merge_feed_body(pr, rss_title, rss_summary) ==
    IF pr.kind = "nondict"
    THEN Merged(TRUE, None, None, None, None, None)
    ELSE IF pr.kind \in {"exc", "falsy"}
    THEN Merged(FALSE, rss_title, None, None, None, rss_summary)
    ELSE Merged(FALSE, Or(pr.title, rss_title), Or(pr.body, rss_summary),
                pr.author, pr.pub_date, Or(pr.summary, rss_summary))

\* process_item, lines 297-311: the parser call and the merge.  A parser
\* exception gives {}; a result without .get raises AttributeError
parse_and_merge(pr, rss_title, rss_summary) ==
    IF pr.kind = "nondict"
    THEN Merged(TRUE, None, None, None, None, None)
    ELSE IF pr.kind \in {"exc", "falsy"}
    THEN Merged(FALSE, rss_title, None, None, None, rss_summary)
    ELSE Merged(FALSE, Or(pr.title, rss_title), pr.body, pr.author,
                pr.pub_date, Or(pr.summary, rss_summary))

\* process_item: f is what fetch_article_soup does if called, pr what the
\* parser does if called, ok what insert_news returns if called
process_item(portals, parsers, item, f, pr, ok) ==
    LET rss_title == derive_title(item)
        rss_summary == rss_summary_of(item)
        cfg == PortalCfg(portals, item.source)
        enabled == GetEnabled(cfg, TRUE)
        mode == IF cfg.scrape_mode = Missing THEN "simple" ELSE cfg.scrape_mode
        has_parser == item.source \in parsers
        should_fetch_html ==
            mode \in {"simple", "hybrid", "browser"} /\ has_parser
        m == parse_and_merge(pr, rss_title, rss_summary)
    IN  IF ~enabled
        THEN Outcome("skipped", FALSE, FALSE, None, None, None, None, None,
                     NoInsert)
        ELSE IF ~should_fetch_html
        THEN guard_validate_save(item, rss_title, rss_summary, FALSE, FALSE,
                                 rss_title, None, None, None, rss_summary, ok)
        ELSE IF f # "soup"
        THEN guard_validate_save(item, rss_title, rss_summary, TRUE, FALSE,
                                 rss_title, None, None, None, rss_summary, ok)
        ELSE IF m.raised
        THEN Outcome("raised", TRUE, TRUE, None, None, None, None, None,
                     NoInsert)
        ELSE guard_validate_save(item, rss_title, rss_summary, TRUE, TRUE,
                                 m.title, m.body, m.author, m.date, m.summary,
                                 ok)

(***************************************************************************)
(* run_single_cycle and run_loop                                           *)
(***************************************************************************)
\* the cycles run_loop makes before the model stops following it
MaxCycles == 2

NoStats == [total |-> 0, saved |-> 0, skipped |-> 0, per |-> <<>>]

\* Bump that counts every key under total
Bump_total_only(per, portal, key) ==
    LET cur == IF portal \in DOMAIN per THEN per[portal]
               ELSE [total |-> 0, saved |-> 0, skipped |-> 0]
        new == [cur EXCEPT !.total = @ + 1]
    IN  [q \in DOMAIN per \cup {portal} |-> IF q = portal THEN new ELSE per[q]]

\* stats[portal][key] += 1 on the defaultdict
Bump(per, portal, key) ==
    LET cur == IF portal \in DOMAIN per THEN per[portal]
               ELSE [total |-> 0, saved |-> 0, skipped |-> 0]
        new == [cur EXCEPT ![key] = @ + 1]
    IN  [q \in DOMAIN per \cup {portal} |-> IF q = portal THEN new ELSE per[q]]

\* run_single_cycle, lines 380-387: validate_portals raises and the
\* exception is re-raised, or validation passes
RunValidate ==
    /\ run_pc = "start"
    /\ run_pc' = IF validate_portals(PORTALS) THEN "config_error" ELSE "init_db"
    /\ UNCHANGED <<PORTALS, PARSERS, seen_links, cycle, db_inits, feeds_left,
                   entries, cur_portal, results, emitted, dropped, todo, stats,
                   fetch_calls, store, item_log, emitted_stats>>
    /\ UNCHANGED <<getVars, hybVars, svcVars, extVars>>

\* run_single_cycle, line 390
RunInitDb ==
    /\ run_pc = "init_db"
    /\ run_pc' = "collect"
    /\ db_inits' = db_inits + 1
    /\ UNCHANGED <<PORTALS, PARSERS, seen_links, cycle, feeds_left, entries,
                   cur_portal, results, emitted, dropped, todo, stats,
                   fetch_calls, store, item_log, emitted_stats>>
    /\ UNCHANGED <<getVars, hybVars, svcVars, extVars>>

\* collect returns, lines 301-305; run_single_cycle, lines 392-399
CollectDone ==
    /\ run_pc = "collecting"
    /\ entries = <<>>
    /\ feeds_left = <<>>
    /\ run_pc' = "processing"
    /\ todo' = results
    /\ stats' = [NoStats EXCEPT !.total = Len(results)]
    /\ UNCHANGED <<PORTALS, PARSERS, seen_links, cycle, db_inits, feeds_left,
                   entries, cur_portal, results, emitted, dropped, fetch_calls,
                   store, item_log, emitted_stats>>
    /\ UNCHANGED <<getVars, hybVars, svcVars, extVars>>

\* one entry of item_log: the item, what the fetch, the parser and
\* insert_news did if they were called, and the outcome of process_item
Logged(item, f, pr, ok, r) ==
    [item |-> item, f |-> IF r.fetched THEN f ELSE "unused",
     pr |-> IF r.parsed THEN pr ELSE NotParsed,
     ok |-> IF r.insert = NoInsert THEN "unused"
            ELSE IF ok THEN "true" ELSE "false",
     out |-> r]

\* run_single_cycle, lines 401-411: one item of the loop.  An exception
\* out of process_item leaves run_single_cycle
ProcessItem(f, pr, ok) ==
    /\ run_pc = "processing"
    /\ todo # <<>>
    /\ LET item == Head(todo)
           r == process_item(PORTALS, PARSERS, item, f, pr, ok)
           counted == Bump(stats.per, item.source, "total")
       IN  /\ item_log' = Append(item_log, Logged(item, f, pr, ok, r))
           /\ fetch_calls' = fetch_calls + (IF r.fetched THEN 1 ELSE 0)
           /\ store' = IF r.insert = NoInsert THEN store
                       ELSE Append(store, r.insert)
           /\ IF r.result = "raised"
              THEN /\ run_pc' = "aborted"
                   /\ stats' = [stats EXCEPT !.per = counted]
                   /\ UNCHANGED todo
              ELSE /\ todo' = Tail(todo)
                   /\ stats' = [stats EXCEPT
                          ![r.result] = @ + 1,
                          !.per = Bump(counted, item.source, r.result)]
                   /\ UNCHANGED run_pc
    /\ UNCHANGED <<PORTALS, PARSERS, seen_links, cycle, db_inits, feeds_left,
                   entries, cur_portal, results, emitted, dropped,
                   emitted_stats>>
    /\ UNCHANGED <<getVars, hybVars, svcVars, extVars>>

\* run_single_cycle, lines 413-423: the SUMMARY and the per-portal lines
EmitStats ==
    /\ run_pc = "processing"
    /\ todo = <<>>
    /\ run_pc' = "done"
    /\ emitted_stats' = stats
    /\ UNCHANGED <<PORTALS, PARSERS, seen_links, cycle, db_inits, feeds_left,
                   entries, cur_portal, results, emitted, dropped, todo, stats,
                   fetch_calls, store, item_log>>
    /\ UNCHANGED <<getVars, hybVars, svcVars, extVars>>

\* run_loop, lines 434-441: the next cycle of the same process
NextCycle ==
    /\ run_pc = "done"
    /\ cycle < MaxCycles
    /\ run_pc' = "start"
    /\ cycle' = cycle + 1
    /\ UNCHANGED <<PORTALS, PARSERS, seen_links, db_inits, feeds_left, entries,
                   cur_portal, results, emitted, dropped, todo, stats,
                   fetch_calls, store, item_log, emitted_stats>>
    /\ UNCHANGED <<getVars, hybVars, svcVars, extVars>>

(***************************************************************************)
(* main, lines 449-465, and run_loop, lines 431-441                        *)
(***************************************************************************)
\* args.interval when the argument is not given
NoInterval == [present |-> FALSE, minutes |-> 0]

\* args.interval when the argument is the int n
Interval(n) == [present |-> TRUE, minutes |-> n]

\* main, line 462: the truth value of args.interval
interval_truthy(a) == a.present /\ a.minutes # 0

\* main, lines 460-465: the branch taken and the first run_single_cycle
MainParse ==
    /\ main_pc = "start"
    /\ run_pc = "off"
    /\ main_pc' = IF interval_truthy(interval) THEN "loop" ELSE "single"
    /\ run_pc' = "start"
    /\ cycle' = 1
    /\ UNCHANGED <<interval, loop_sleeps>>
    /\ UNCHANGED <<PORTALS, PARSERS, seen_links, db_inits, feeds_left, entries,
                   cur_portal, results, emitted, dropped, todo, stats,
                   fetch_calls, store, item_log, emitted_stats>>
    /\ UNCHANGED <<getVars, hybVars, svcVars, bfVars, thrVars>>

\* main, line 465: run_single_cycle returned and main returns
MainSingleReturns ==
    /\ main_pc = "single"
    /\ run_pc = "done"
    /\ main_pc' = "exited"
    /\ UNCHANGED <<interval, loop_sleeps>>
    /\ UNCHANGED <<runVars, getVars, hybVars, svcVars, bfVars, thrVars>>

\* run_loop, lines 440-441 and back to 434: time.sleep(interval * 60),
\* which raises ValueError for a negative length, then the next cycle
LoopSleep ==
    /\ main_pc = "loop"
    /\ run_pc = "done"
    /\ IF interval.minutes < 0
       THEN /\ main_pc' = "raised"
            /\ UNCHANGED <<loop_sleeps, run_pc, cycle>>
       ELSE /\ cycle < MaxCycles
            /\ loop_sleeps' = Append(loop_sleeps, interval.minutes * 60)
            /\ run_pc' = "start"
            /\ cycle' = cycle + 1
            /\ UNCHANGED main_pc
    /\ UNCHANGED interval
    /\ UNCHANGED <<PORTALS, PARSERS, seen_links, db_inits, feeds_left, entries,
                   cur_portal, results, emitted, dropped, todo, stats,
                   fetch_calls, store, item_log, emitted_stats>>
    /\ UNCHANGED <<getVars, hybVars, svcVars, bfVars, thrVars>>

\* an exception of run_single_cycle is caught neither by run_loop nor by
\* main
MainCycleRaises ==
    /\ main_pc \in {"single", "loop"}
    /\ run_pc \in {"config_error", "aborted"}
    /\ main_pc' = "raised"
    /\ UNCHANGED <<interval, loop_sleeps>>
    /\ UNCHANGED <<runVars, getVars, hybVars, svcVars, bfVars, thrVars>>

(***************************************************************************)
(* The inputs of a cycle                                                   *)
(***************************************************************************)
Entry(link, title, summary, description, published) ==
    [link |-> link, title |-> title, summary |-> summary,
     description |-> description, published |-> published]

LinkPlate ==
    <<"https://example.com", "/", "news", "/", "poison", "-", "the", "-",
      "plate", "-", "4044126">>
LinkRoot == <<"https://example.com", "/">>
LinkReport ==
    <<"https://www.bbc.com", "/", "news", "/", "flood", "_", "report", ".",
      "html", "?", "ref", "=", "rss">>

FloodTitle == <<"Flood warning issued">>
Placeholder == <<"Sorry, you have been blocked">>

\* the longest feed the model reads
MaxEntries == 2

CycleEntries ==
    {Entry(l, FloodTitle, None, None, None) :
         l \in {None, <<" ">>, LinkPlate, <<" ">> \o LinkPlate \o <<" ">>}}
    \cup {Entry(LinkRoot, None, None, None, None)}

RECURSIVE SeqsUpTo(_, _)
SeqsUpTo(S, n) ==
    IF n = 0 THEN {<<>>}
    ELSE LET shorter == SeqsUpTo(S, n - 1) IN
         shorter \cup {Append(q, e) : q \in shorter, e \in S}

CycleFeeds == SeqsUpTo(CycleEntries, MaxEntries)

\* the first two of the three feeds of bbc
BbcFeeds == <<"https://feeds.bbci.co.uk/news/rss.xml",
              "https://feeds.bbci.co.uk/news/world/rss.xml">>
ProthomaloFeeds == <<"https://www.prothomalo.com/feed">>

ValidBbc == Cfg("simple", List(BbcFeeds), List(<<"bbc.co.uk", "bbc.com">>), "true")
ValidProthomalo ==
    Cfg("hybrid", List(ProthomaloFeeds),
        List(<<"prothomalo.com", "en.prothomalo.com">>), "true")

\* the configurations of the model: the shipped one (two of its portals),
\* variants of it, and one for every way validate_portals rejects
CyclePortals ==
    {[bbc |-> ValidBbc, prothomalo |-> ValidProthomalo],
     [bbc |-> Cfg("rss_only", List(BbcFeeds), NoKey, "true"),
      prothomalo |-> [ValidProthomalo EXCEPT !.enabled = "false"]],
     [bbc |-> [ValidBbc EXCEPT !.scrape_mode = Missing],
      prothomalo |-> ValidProthomalo],
     [bbc |-> ValidBbc,
      prothomalo |-> [ValidProthomalo EXCEPT !.scrape_mode = "selenium"]],
     [bbc |-> [ValidBbc EXCEPT !.rss = NonList], prothomalo |-> ValidProthomalo],
     [bbc |-> [ValidBbc EXCEPT !.rss = NoKey], prothomalo |-> ValidProthomalo],
     [bbc |-> ValidBbc,
      prothomalo |-> [ValidProthomalo EXCEPT !.hard_domains = NonList]]}

CycleParsed ==
    {ParserRaised, ParsedNonDict,
     Parsed("dict", <<"Parsed title">>, <<"Parsed body">>, None, None, None)}

RunInit ==
    /\ PORTALS \in CyclePortals
    /\ PARSERS = {"bbc"}
    /\ seen_links = {}
    /\ run_pc = "start"
    /\ cycle = 1
    /\ db_inits = 0
    /\ feeds_left = <<>>
    /\ entries = <<>>
    /\ cur_portal = ""
    /\ results = <<>>
    /\ emitted = <<>>
    /\ dropped = [seen |-> {}, unusable |-> FALSE]
    /\ todo = <<>>
    /\ stats = NoStats
    /\ fetch_calls = 0
    /\ store = <<>>
    /\ item_log = <<>>
    /\ emitted_stats = NoStats

(***************************************************************************)
(* scrapers/base/browser_scraper.py: the lifecycle of a BrowserScraper.    *)
(* A handle is TRUE when it is not None.                                   *)
(***************************************************************************)
Handles(pw, br, ctx, pg) ==
    [playwright |-> pw, browser |-> br, context |-> ctx, page |-> pg]

\* the handles after __enter__ returned
Entered == Handles(TRUE, TRUE, TRUE, TRUE)

\* the handles after __init__, and after the finally of __exit__
Cleared == Handles(FALSE, FALSE, FALSE, FALSE)

\* the step of __exit__ that raises, if one does
ExitFailures ==
    {"none", "storage_state", "page", "context", "browser", "playwright"}

CloseOrder == <<"page", "context", "browser", "playwright">>

RECURSIVE closeUntil(_, _, _)
\* the close calls of lines 145-152 that are made, in order, when the one
\* named fail raises: a None handle is passed over, and nothing follows the
\* call that raises
closeUntil(h, order, fail) ==
    IF order = <<>> THEN <<>>
    ELSE IF ~h[Head(order)] THEN closeUntil(h, Tail(order), fail)
    ELSE IF Head(order) = fail THEN <<Head(order)>>
    ELSE <<Head(order)>> \o closeUntil(h, Tail(order), fail)

\* BrowserScraper.__exit__: the steps attempted, whether it raised, and the
\* handles it leaves
browser_exit(h, fail) ==
    LET closes == closeUntil(h, CloseOrder, fail) IN
    [steps |-> (IF h.context THEN <<"storage_state">> ELSE <<>>) \o closes,
     raised |-> closes # <<>> /\ closes[Len(closes)] = fail,
     handles |-> Cleared]

NoExit == [inst |-> 0, was |-> Cleared, fail |-> "none", steps |-> <<>>,
           raised |-> FALSE]

\* article_fetcher._browser_is_healthy
browser_is_healthy(h) == h.page /\ h.context /\ h.browser

(***************************************************************************)
(* BrowserScraper.fetch_html, lines 204-265.  The sleeps recorded are the  *)
(* back-offs of lines 250 and 262; the polite delay of _sleep_if_needed    *)
(* and the pause of _scroll are not.                                       *)
(***************************************************************************)
Browser_signals ==
    {"access denied", "cloudflare", "captcha", "checking your browser",
     "verify you are human", "bot detection", "/cdn-cgi/challenge-platform",
     "security check", "please wait while"}

\* BrowserScraper._is_block_page, on the lower-cased html
Browser_is_block_page(body) == \E s \in Browser_signals : InLower(s, body)

CaptchaBody == [len |-> 5000, frags |-> {"CAPTCHA"}]

\* what one pass of the try block can do: page.content() is reached and
\* gives an html, goto times out, or anything else raises
Navigations ==
    {[kind |-> "content", body |-> b] : b \in {CleanBody, WafBody, CaptchaBody}}
    \cup {[kind |-> "timeout", body |-> EmptyBody],
          [kind |-> "error", body |-> EmptyBody]}

\* what fetch_html returns: an html, or None
Html(b) == [kind |-> "html", body |-> b]
NoHtml == [kind |-> "none", body |-> EmptyBody]

\* an attempt that did not return the html
NavFailed(o) == o.kind # "content" \/ Browser_is_block_page(o.body)

\* the same back-off after every attempt
browser_backoff_flat(k) == 2

\* time.sleep(2 * attempt), lines 250 and 262
browser_backoff(k) == 2 * k

\* fetch_html, lines 212-216
BfStart ==
    /\ bf_pc = "idle"
    /\ bf_pc' = IF bf_page THEN "loop" ELSE "raised"
    /\ bf_attempt' = 1
    /\ bf_sleeps' = <<>>
    /\ bf_outcomes' = <<>>
    /\ bf_ret' = NoHtml
    /\ UNCHANGED <<bf_page, bf_max_retries>>
    /\ UNCHANGED <<getVars, hybVars, runVars, svcVars, mainVars, thrVars>>

\* one iteration of the for loop of fetch_html, lines 218-262
BfAttempt(o) ==
    /\ bf_pc = "loop"
    /\ bf_attempt <= bf_max_retries
    /\ bf_outcomes' = Append(bf_outcomes, o)
    /\ IF NavFailed(o)
       THEN /\ bf_sleeps' = Append(bf_sleeps, browser_backoff(bf_attempt))
            /\ bf_attempt' = bf_attempt + 1
            /\ UNCHANGED <<bf_pc, bf_ret>>
       ELSE /\ bf_pc' = "returned"
            /\ bf_ret' = Html(o.body)
            /\ UNCHANGED <<bf_sleeps, bf_attempt>>
    /\ UNCHANGED <<bf_page, bf_max_retries>>
    /\ UNCHANGED <<getVars, hybVars, runVars, svcVars, mainVars, thrVars>>

\* fetch_html, lines 264-265: giving up
BfGiveUp ==
    /\ bf_pc = "loop"
    /\ bf_attempt > bf_max_retries
    /\ bf_pc' = "returned"
    /\ bf_ret' = NoHtml
    /\ UNCHANGED <<bf_page, bf_max_retries, bf_attempt, bf_sleeps,
                   bf_outcomes>>
    /\ UNCHANGED <<getVars, hybVars, runVars, svcVars, mainVars, thrVars>>

\* the caller takes the html, None or the RuntimeError; the scraper is
\* used again
BfDone ==
    /\ bf_pc \in {"returned", "raised"}
    /\ bf_pc' = "idle"
    /\ UNCHANGED <<bf_page, bf_max_retries, bf_attempt, bf_sleeps,
                   bf_outcomes, bf_ret>>
    /\ UNCHANGED <<getVars, hybVars, runVars, svcVars, mainVars, thrVars>>

(***************************************************************************)
(* core/article_fetcher.py.  S is the state of the module: _BROWSER,       *)
(* _HYBRID_BY_PORTAL, the instances entered so far and the domains _BASE   *)
(* has a timestamp for.                                                    *)
(***************************************************************************)
SvcState(b, cache, insts, ts) ==
    [BROWSER |-> b, HYBRID_BY_PORTAL |-> cache, instances |-> insts, ts |-> ts]

\* _get_browser(): launch is what __enter__ does if it is called
get_browser(S, pw, launch) ==
    LET B == S.BROWSER
        reuse == B # 0 /\ browser_is_healthy(S.instances[B])
        torn == IF B # 0
                THEN [S.instances EXCEPT ![B] = browser_exit(@, "none").handles]
                ELSE S.instances
        checked == IF B # 0 THEN <<"browser_is_healthy">> ELSE <<>>
        exited == IF B # 0 THEN <<"browser.__exit__">> ELSE <<>>
    IN  IF reuse
        THEN [S |-> S, ret |-> B, events |-> checked]
        ELSE IF ~pw
        THEN [S |-> [S EXCEPT !.BROWSER = 0, !.instances = torn], ret |-> 0,
              events |-> checked \o exited]
        ELSE IF launch = "ok"
        THEN [S |-> [S EXCEPT !.BROWSER = Len(torn) + 1,
                              !.instances = Append(torn, Entered)],
              ret |-> Len(torn) + 1,
              events |-> checked \o exited \o <<"browser.__enter__">>]
        ELSE [S |-> [S EXCEPT !.BROWSER = 0, !.instances = torn], ret |-> 0,
              events |-> checked \o exited \o <<"browser.__enter__">>]

\* a HybridScraper: the instance it holds as browser (0 for None) and its
\* hard domains
Selector(br, hd) == [browser |-> br, hard_domains |-> hd]

NoSelector == Selector(0, {"<no selector>"})

\* cfg.get("hard_domains", []) or [], each domain as a one-label host
hard_domains_of(cfg) ==
    IF cfg.hard_domains.kind = "list"
    THEN [i \in 1..Len(cfg.hard_domains.items) |-> <<cfg.hard_domains.items[i]>>]
    ELSE <<>>

\* _get_hybrid(portal_id)
get_hybrid(portals, portal_id, S, pw, launch) ==
    IF portal_id \in DOMAIN S.HYBRID_BY_PORTAL
    THEN [S |-> S, hybrid |-> S.HYBRID_BY_PORTAL[portal_id], events |-> <<>>]
    ELSE IF ~pw
    THEN [S |-> S, hybrid |-> NoSelector, events |-> <<>>]
    ELSE LET g == get_browser(S, pw, launch)
             h == Selector(g.ret, Hybrid_init_hard_domains(
                                      hard_domains_of(PortalCfg(portals, portal_id))))
             cache == [q \in DOMAIN S.HYBRID_BY_PORTAL \cup {portal_id} |->
                          IF q = portal_id THEN h ELSE S.HYBRID_BY_PORTAL[q]]
         IN  [S |-> [g.S EXCEPT !.HYBRID_BY_PORTAL = cache], hybrid |-> h,
              events |-> <<"get_browser">> \o g.events]

\* urlparse(url).netloc
url_netloc(url) ==
    CASE Head(url) = "https://www.bbc.com" -> <<"www.", "bbc.com">>
      [] OTHER -> <<"example.com">>

\* BaseScraper.fetch_html on what get did: a document whatever the response
\* is, or the exception of get
Base_fetch_html(b) ==
    IF b.kind = "exc" THEN [raised |-> TRUE, soup |-> NoDoc]
    ELSE [raised |-> FALSE, soup |-> Soup(b.body)]

\* _BASE.fetch_html(url) in its try/except of fetch_article_soup
base_or_none(b) == Base_fetch_html(b).soup

\* _update_last_ts: get stamps the domain whenever a response arrived
stamped(ts, url, b) ==
    IF b = Dummy THEN ts ELSE ts \cup {normalize_domain(url_netloc(url))}

\* what one fetch_article_soup call did: the module state it leaves, the
\* value returned, the calls made in order, what the selector returned,
\* what get did in the last plain fetch_html of the call, and the instance
\* browser.fetch_html ran on with its health at that moment
Fetched(S, ret, events, sel, http, used, used_healthy) ==
    [S |-> S, ret |-> ret, events |-> events, sel |-> sel, http |-> http,
     used |-> used, used_healthy |-> used_healthy]

Has(log, what) == \E i \in 1..Len(log) : log[i] = what

\* the fallback made after the selector whatever the mode is
fallback_wanted_any_mode(raised, soup, hybrid_mode) ==
    raised \/ soup.kind = "none"

\* lines 246 and 259: _BASE.fetch_html is tried once more when the selector
\* raised, or returned None in auto mode
fallback_wanted(raised, soup, hybrid_mode) ==
    raised \/ (soup.kind = "none" /\ hybrid_mode = "auto")

\* the early returns without the one for rss_only
skips_html_unless_rss_only(portals, portal) ==
    \/ portal \notin DOMAIN portals
    \/ PortalCfg(portals, portal).enabled = "false"

\* lines 195-212: the early returns of fetch_article_soup, for a portal
\* that is unknown, has enabled False, or has scrape_mode rss_only
skips_html(portals, portal) ==
    \/ portal \notin DOMAIN portals
    \/ PortalCfg(portals, portal).enabled = "false"
    \/ PortalCfg(portals, portal).scrape_mode = "rss_only"

\* fetch_article_soup(portal, url): b is what _BASE.get does in the first
\* HTTP fetch of the call, w what browser.fetch_html does on an entered
\* browser, b2 what _BASE.get does in the fallback of lines 252 and 263
fetch_article_soup(portals, portal, url, S, pw, launch, b, w, b2) ==
    LET cfg == PortalCfg(portals, portal)
        mode == IF cfg.scrape_mode = Missing THEN "simple" ELSE cfg.scrape_mode
        gh == get_hybrid(portals, portal, S, pw, launch)
        h == gh.hybrid
        hybrid_mode == IF mode = "browser" THEN "browser" ELSE "auto"
        br == IF h.browser = 0 THEN "none"
              ELSE IF gh.S.instances[h.browser].page THEN "live"
              ELSE "closed"
        r == Hybrid_fetch_html(h.hard_domains, br, url_netloc(url), hybrid_mode,
                               b, IF br = "closed" THEN BrowserRaises ELSE w)
        ranBrowser == Has(r.log, "browser.fetch_html")
        S1 == IF Has(r.log, "base.get")
              THEN [gh.S EXCEPT !.ts = stamped(@, url, b)]
              ELSE gh.S
        again == fallback_wanted(r.raised, r.ret, hybrid_mode)
    IN  IF skips_html(portals, portal)
        THEN Fetched(S, NoDoc, <<>>, "unused", NoResp, 0, TRUE)
        ELSE IF mode = "simple"
        THEN Fetched([S EXCEPT !.ts = stamped(@, url, b)], base_or_none(b),
                     <<"base.fetch_html">>, "unused", b, 0, TRUE)
        ELSE IF h = NoSelector
        THEN Fetched([gh.S EXCEPT !.ts = stamped(@, url, b)], base_or_none(b),
                     gh.events \o <<"base.fetch_html">>, "unused", b, 0, TRUE)
        ELSE Fetched(IF again THEN [S1 EXCEPT !.ts = stamped(@, url, b2)]
                     ELSE S1,
                     IF again THEN base_or_none(b2) ELSE r.ret,
                     gh.events \o <<"hybrid.fetch_html">> \o r.log
                         \o (IF again THEN <<"base.fetch_html">> ELSE <<>>),
                     IF r.raised THEN "raised" ELSE r.ret.kind,
                     IF again THEN b2 ELSE NoResp,
                     IF ranBrowser THEN h.browser ELSE 0,
                     ranBrowser =>
                         browser_is_healthy(gh.S.instances[h.browser]))

\* the exception types a close call of __exit__ can raise
ExitExceptions == {"AttributeError", "Exception"}

\* shutdown with only its inner except clause
shutdown_inner_except_only(S, fail, exc) ==
    LET B == S.BROWSER
        r == browser_exit(S.instances[B], fail)
    IN  IF B = 0
        THEN [S |-> [S EXCEPT !.HYBRID_BY_PORTAL = <<>>], steps |-> <<>>,
              raised |-> FALSE]
        ELSE [S |-> [S EXCEPT !.BROWSER = 0, !.HYBRID_BY_PORTAL = <<>>,
                              !.instances[B] = r.handles],
              steps |-> r.steps,
              raised |-> r.raised /\ exc # "AttributeError"]

\* shutdown(): the AttributeError of __exit__ is handled at line 161 (the
\* BrowserScraper has no close), any other Exception at line 166; the
\* finally resets both globals
shutdown(S, fail, exc) ==
    LET B == S.BROWSER
        r == browser_exit(S.instances[B], fail)
        handled == exc \in {"AttributeError", "Exception"}
    IN  IF B = 0
        THEN [S |-> [S EXCEPT !.HYBRID_BY_PORTAL = <<>>], steps |-> <<>>,
              raised |-> FALSE]
        ELSE [S |-> [S EXCEPT !.BROWSER = 0, !.HYBRID_BY_PORTAL = <<>>,
                              !.instances[B] = r.handles],
              steps |-> r.steps,
              raised |-> r.raised /\ ~handled]

\* the most BrowserScraper instances the model lets the process enter
MaxBrowsers == 2

NoSvcCall == [portal |-> "", ret |-> NoDoc, events |-> <<>>, sel |-> "unused",
              http |-> NoResp, used |-> 0, used_healthy |-> TRUE]

NoShutdown == [had |-> 0, steps |-> <<>>, raised |-> FALSE, again |-> FALSE]

SvcNow == SvcState(BROWSER, HYBRID_BY_PORTAL, instances, last_request_ts)

\* the module state and the record of the call after fetch_article_soup
SvcAfter(portal, r) ==
    /\ BROWSER' = r.S.BROWSER
    /\ HYBRID_BY_PORTAL' = r.S.HYBRID_BY_PORTAL
    /\ instances' = r.S.instances
    /\ last_request_ts' = r.S.ts
    /\ svc_call' = [portal |-> portal, ret |-> r.ret, events |-> r.events,
                    sel |-> r.sel, http |-> r.http, used |-> r.used,
                    used_healthy |-> r.used_healthy]

\* the inputs a fetch_article_soup call cannot consume have one value:
\* nothing is fetched for a source that is unknown, disabled or rss_only,
\* the browser is launched only with a new selector, it is used only with
\* playwright, and HTTP is not used in browser mode
Consumed(portal, launch, b, w, b2) ==
    LET cfg == PortalCfg(PORTALS, portal)
        mode == IF cfg.scrape_mode = Missing THEN "simple" ELSE cfg.scrape_mode
        short == portal \notin DOMAIN PORTALS \/ cfg.enabled = "false"
                 \/ mode = "rss_only"
        selectors == mode \in {"hybrid", "browser"} /\ playwright
    IN  /\ launch = "raises"
           \/ (/\ ~short
               /\ selectors
               /\ portal \notin DOMAIN HYBRID_BY_PORTAL
               /\ Len(instances) < MaxBrowsers)
        /\ b = TransportError \/ (~short /\ (mode # "browser" \/ ~playwright))
        /\ w.kind = "none" \/ (~short /\ selectors)
        /\ b2 = TransportError \/ (~short /\ selectors /\ mode # "browser")

\* a call of the public fetch_article_soup(portal, url)
FetchArticleSoup(portal, url, launch, b, w, b2) ==
    /\ Consumed(portal, launch, b, w, b2)
    /\ \E r \in {fetch_article_soup(PORTALS, portal, url, SvcNow, playwright,
                                     launch, b, w, b2)} :
           SvcAfter(portal, r)
    /\ svc_op' = "fetch"
    /\ exit_call' = NoExit
    /\ shutdown_call' = NoShutdown
    /\ UNCHANGED playwright
    /\ UNCHANGED <<get_pc, get_url, attempt, last_resp, get_ret, sleeps,
                   outcomes>>
    /\ UNCHANGED <<hybVars, runVars, extVars>>

\* run_single_cycle, lines 401-411, with the fetch_article_soup call of
\* process_item made on the fetch service
ProcessItemFetching(launch, b, w, b2, pr, ok) ==
    /\ run_pc = "processing"
    /\ todo # <<>>
    /\ Consumed(Head(todo).source, launch, b, w, b2)
    /\ \E fr \in {fetch_article_soup(PORTALS, Head(todo).source,
                                      Head(todo).link, SvcNow, playwright,
                                      launch, b, w, b2)} :
       \E r \in {process_item(PORTALS, PARSERS, Head(todo), fr.ret.kind, pr,
                              ok)} :
       LET item == Head(todo)
           counted == Bump(stats.per, item.source, "total")
       IN  /\ IF r.fetched
              THEN SvcAfter(item.source, fr)
              ELSE /\ svc_call' = NoSvcCall
                   /\ UNCHANGED <<BROWSER, HYBRID_BY_PORTAL, instances,
                                  last_request_ts>>
           /\ item_log' = Append(item_log,
                                 Logged(item, fr.ret.kind, pr, ok, r))
           /\ fetch_calls' = fetch_calls + (IF r.fetched THEN 1 ELSE 0)
           /\ store' = IF r.insert = NoInsert THEN store
                       ELSE Append(store, r.insert)
           /\ IF r.result = "raised"
              THEN /\ run_pc' = "aborted"
                   /\ stats' = [stats EXCEPT !.per = counted]
                   /\ UNCHANGED todo
              ELSE /\ todo' = Tail(todo)
                   /\ stats' = [stats EXCEPT
                          ![r.result] = @ + 1,
                          !.per = Bump(counted, item.source, r.result)]
                   /\ UNCHANGED run_pc
    /\ svc_op' = "process_item"
    /\ exit_call' = NoExit
    /\ shutdown_call' = NoShutdown
    /\ UNCHANGED playwright
    /\ UNCHANGED <<get_pc, get_url, attempt, last_resp, get_ret, sleeps,
                   outcomes>>
    /\ UNCHANGED <<PORTALS, PARSERS, seen_links, cycle, db_inits, feeds_left,
                   entries, cur_portal, results, emitted, dropped,
                   emitted_stats>>
    /\ UNCHANGED <<hybVars, extVars>>

\* BrowserScraper.__exit__ called on the shared instance by whoever holds it
BrowserExit(fail) ==
    /\ BROWSER # 0
    /\ LET r == browser_exit(instances[BROWSER], fail) IN
       /\ instances' = [instances EXCEPT ![BROWSER] = r.handles]
       /\ exit_call' = [inst |-> BROWSER, was |-> instances[BROWSER],
                        fail |-> IF r.raised THEN fail ELSE "none",
                        steps |-> r.steps, raised |-> r.raised]
    /\ svc_op' = "exit"
    /\ svc_call' = NoSvcCall
    /\ shutdown_call' = NoShutdown
    /\ UNCHANGED <<playwright, BROWSER, HYBRID_BY_PORTAL>>
    /\ UNCHANGED <<getVars, hybVars, runVars, extVars>>

\* a call of shutdown()
Shutdown(fail, exc) ==
    /\ LET r == shutdown(SvcNow, fail, exc) IN
       /\ BROWSER' = r.S.BROWSER
       /\ HYBRID_BY_PORTAL' = r.S.HYBRID_BY_PORTAL
       /\ instances' = r.S.instances
       /\ shutdown_call' = [had |-> BROWSER, steps |-> r.steps,
                            raised |-> r.raised, again |-> svc_op = "shutdown"]
    /\ svc_op' = "shutdown"
    /\ svc_call' = NoSvcCall
    /\ exit_call' = NoExit
    /\ UNCHANGED playwright
    /\ UNCHANGED <<getVars, hybVars, runVars, extVars>>

(***************************************************************************)
(* fetch_article_soup called from several threads.  The module has no lock *)
(* (article_fetcher.py and browser_scraper.py import none), so the steps   *)
(* of two calls interleave at every statement that reads or writes         *)
(* _BROWSER or _HYBRID_BY_PORTAL.  Here instances holds the handles of     *)
(* every BrowserScraper constructed, those whose __enter__ raised too.     *)
(***************************************************************************)
Threads == {1, 2}

\* a thread's call: the statement it stands before, the source, the value
\* _get_browser returned to it, the browser of the selector it fetches with
ThreadCall(pc, portal, br, sel) ==
    [pc |-> pc, portal |-> portal, br |-> br, sel |-> sel]

NoThreadCall == ThreadCall("idle", "", 0, 0)

\* the statement of __enter__ that raises, if one does: sync_playwright()
\* .start(), chromium.launch, new_context, new_page
EnterFailures == {"none", "start", "launch", "context", "page"}

\* BrowserScraper.__enter__, lines 78-132: the handles of the object when
\* it returns or raises; the statements before the failing one have run
browser_enter(fail) ==
    CASE fail = "none" -> Entered
      [] fail = "start" -> Cleared
      [] fail = "launch" -> Handles(TRUE, FALSE, FALSE, FALSE)
      [] fail = "context" -> Handles(TRUE, TRUE, FALSE, FALSE)
      [] fail = "page" -> Handles(TRUE, TRUE, TRUE, FALSE)

\* fetch_article_soup, lines 193-224, for a source that goes to a selector
ThreadCalls(t, portal) ==
    /\ threads[t].pc = "idle"
    /\ portal \in DOMAIN PORTALS
    /\ PORTALS[portal].enabled # "false"
    /\ PORTALS[portal].scrape_mode \in {"hybrid", "browser"}
    /\ threads' = [threads EXCEPT ![t] = ThreadCall("get_hybrid", portal, 0, 0)]
    /\ UNCHANGED <<getVars, hybVars, runVars, svcVars, bfVars, mainVars>>

\* _get_hybrid, lines 108-118: the cached selector, or on to _get_browser
ThreadGetHybrid(t) ==
    /\ threads[t].pc = "get_hybrid"
    /\ LET me == threads[t] IN
       threads' =
           [threads EXCEPT ![t] =
               IF me.portal \in DOMAIN HYBRID_BY_PORTAL
               THEN ThreadCall("fetch", me.portal, me.br,
                               HYBRID_BY_PORTAL[me.portal].browser)
               ELSE ThreadCall("get_browser", me.portal, me.br, me.sel)]
    /\ UNCHANGED <<getVars, hybVars, runVars, svcVars, bfVars, mainVars>>

\* _get_browser, lines 72-86: the test of _BROWSER and its health
ThreadGetBrowser(t) ==
    /\ threads[t].pc = "get_browser"
    /\ IF BROWSER # 0 /\ browser_is_healthy(instances[BROWSER])
       THEN /\ threads' = [threads EXCEPT ![t].pc = "make_hybrid",
                                          ![t].br = BROWSER]
            /\ UNCHANGED <<BROWSER, instances>>
       ELSE /\ threads' = [threads EXCEPT ![t].pc = "enter"]
            /\ BROWSER' = 0
            /\ instances' = IF BROWSER # 0
                            THEN [instances EXCEPT ![BROWSER] = Cleared]
                            ELSE instances
    /\ UNCHANGED <<playwright, HYBRID_BY_PORTAL, svc_op, svc_call, exit_call,
                   shutdown_call>>
    /\ UNCHANGED <<getVars, hybVars, runVars, bfVars, mainVars>>

\* _get_browser, lines 88-99: a BrowserScraper is constructed and entered,
\* and _BROWSER is bound to it, or to None when __enter__ raised
ThreadEnter(t, fail) ==
    /\ threads[t].pc = "enter"
    /\ instances' = Append(instances, browser_enter(fail))
    /\ BROWSER' = IF fail = "none" THEN Len(instances) + 1 ELSE 0
    /\ threads' = [threads EXCEPT ![t].pc = "make_hybrid", ![t].br = BROWSER']
    /\ UNCHANGED <<playwright, HYBRID_BY_PORTAL, svc_op, svc_call, exit_call,
                   shutdown_call>>
    /\ UNCHANGED <<getVars, hybVars, runVars, bfVars, mainVars>>

\* _get_hybrid, lines 120-141: the selector is built and cached
ThreadMakeHybrid(t) ==
    /\ threads[t].pc = "make_hybrid"
    /\ LET me == threads[t]
           h == Selector(me.br, Hybrid_init_hard_domains(
                                    hard_domains_of(PortalCfg(PORTALS, me.portal))))
       IN  HYBRID_BY_PORTAL' =
               [q \in DOMAIN HYBRID_BY_PORTAL \cup {me.portal} |->
                   IF q = me.portal THEN h ELSE HYBRID_BY_PORTAL[q]]
    /\ threads' = [threads EXCEPT ![t].pc = "fetch",
                                   ![t].sel = threads[t].br]
    /\ UNCHANGED <<playwright, BROWSER, instances, svc_op, svc_call, exit_call,
                   shutdown_call>>
    /\ UNCHANGED <<getVars, hybVars, runVars, bfVars, mainVars>>

\* hybrid.fetch_html, line 230: viaBrowser says whether the selector takes
\* the browser path; on it BrowserScraper.fetch_html starts page.goto on
\* the page of the selector's browser (line 223 of browser_scraper.py)
ThreadFetch(t, viaBrowser) ==
    /\ threads[t].pc = "fetch"
    /\ LET me == threads[t] IN
       threads' =
           [threads EXCEPT ![t] =
               IF viaBrowser /\ me.sel # 0 /\ instances[me.sel].page
               THEN ThreadCall("navigating", me.portal, me.br, me.sel)
               ELSE NoThreadCall]
    /\ UNCHANGED <<getVars, hybVars, runVars, svcVars, bfVars, mainVars>>

\* page.goto and page.content are over and fetch_article_soup returns
ThreadReturns(t) ==
    /\ threads[t].pc = "navigating"
    /\ threads' = [threads EXCEPT ![t] = NoThreadCall]
    /\ UNCHANGED <<getVars, hybVars, runVars, svcVars, bfVars, mainVars>>

(***************************************************************************)
(* Specifications of the two fetch strategies                              *)
(***************************************************************************)
\* no BrowserScraper.fetch_html call and no main() in progress
ExtIdle ==
    /\ bf_pc = "idle"
    /\ bf_page = FALSE
    /\ bf_max_retries = 2
    /\ bf_attempt = 0
    /\ bf_sleeps = <<>>
    /\ bf_outcomes = <<>>
    /\ bf_ret = NoHtml
    /\ main_pc = "off"
    /\ interval = [present |-> FALSE, minutes |-> 0]
    /\ loop_sleeps = <<>>
    /\ threads = [t \in Threads |-> NoThreadCall]

GetIdle ==
    /\ get_pc = "idle"
    /\ get_url = <<>>
    /\ attempt = 0
    /\ last_resp = NoResp
    /\ get_ret = NoResp
    /\ sleeps = <<>>
    /\ outcomes = <<>>
    /\ last_request_ts = {}

HybIdle ==
    /\ hard_domains = {}
    /\ browser = "none"
    /\ h_call = NoCall
    /\ h_log = <<>>
    /\ h_ret = NoDoc
    /\ h_prev = "first"

RunIdle ==
    /\ PORTALS = <<>>
    /\ PARSERS = {}
    /\ seen_links = {}
    /\ run_pc = "off"
    /\ cycle = 0
    /\ db_inits = 0
    /\ feeds_left = <<>>
    /\ entries = <<>>
    /\ cur_portal = ""
    /\ results = <<>>
    /\ emitted = <<>>
    /\ dropped = [seen |-> {}, unusable |-> FALSE]
    /\ todo = <<>>
    /\ stats = NoStats
    /\ fetch_calls = 0
    /\ store = <<>>
    /\ item_log = <<>>
    /\ emitted_stats = NoStats

SvcIdle ==
    /\ playwright = TRUE
    /\ BROWSER = 0
    /\ HYBRID_BY_PORTAL = <<>>
    /\ instances = <<>>
    /\ svc_op = "none"
    /\ svc_call = NoSvcCall
    /\ exit_call = NoExit
    /\ shutdown_call = NoShutdown

\* one BaseScraper, its get called again and again
GetInit == GetIdle /\ HybIdle /\ RunIdle /\ SvcIdle /\ ExtIdle

GetNext ==
    \/ \E host \in Hosts : GetStart(host)
    \/ \E o \in Attempts : GetAttempt(o)
    \/ GetGiveUp
    \/ GetDone

SpecGet == GetInit /\ [][GetNext]_vars

\* one HybridScraper, built with any hard-domain list and with or without
\* a browser, its fetch_html called again and again
HybInit ==
    /\ GetIdle
    /\ ExtIdle
    /\ RunIdle
    /\ SvcIdle
    /\ \E raw \in HardDomainConfigs : hard_domains = Hybrid_init_hard_domains(raw)
    /\ browser \in {"none", "live", "closed"}
    /\ h_call = NoCall
    /\ h_log = <<>>
    /\ h_ret = NoDoc
    /\ h_prev = "first"

HybNext ==
    \E url \in HybridHosts, mode \in HybridModes, b \in BaseOutcomes,
       w \in BrowserOutcomes : HybridFetchHtml(url, mode, b, w)

SpecHybrid == HybInit /\ [][HybNext]_vars

\* the largest max_retries a BrowserScraper of the model is built with
MaxBrowserRetries == 3

\* one BrowserScraper, entered or not, its fetch_html called again and again
BrowserFetchInit ==
    /\ GetIdle
    /\ HybIdle
    /\ RunIdle
    /\ SvcIdle
    /\ bf_pc = "idle"
    /\ bf_page \in BOOLEAN
    /\ bf_max_retries \in 1..MaxBrowserRetries
    /\ bf_attempt = 0
    /\ bf_sleeps = <<>>
    /\ bf_outcomes = <<>>
    /\ bf_ret = NoHtml
    /\ main_pc = "off"
    /\ interval = NoInterval
    /\ loop_sleeps = <<>>
    /\ threads = [t \in Threads |-> NoThreadCall]

BrowserFetchNext ==
    \/ BfStart
    \/ \E o \in Navigations : BfAttempt(o)
    \/ BfGiveUp
    \/ BfDone

SpecBrowserFetch == BrowserFetchInit /\ [][BrowserFetchNext]_vars

(***************************************************************************)
(* Claims about BaseScraper.get                                            *)
(***************************************************************************)
AllTransportErrors == \A i \in 1..Len(outcomes) : outcomes[i].kind = "exc"

\* C1: whatever session.get does at each attempt (a transport exception,
\* or a response of any status, body and Retry-After header), get never
\* raises to its caller, and what it returns is a response, never None.
C1_GetNeverFailsTheCaller ==
    /\ get_pc # "raised"
    /\ get_pc = "returned" => get_ret.kind = "resp"

\* C2: when every attempt of a get call ended in a transport exception,
\* the call made exactly max_retries attempts and returned the fabricated
\* response: status 599, empty body, suspected-block set.
C2_UnreachableNetworkYieldsDummy ==
    (get_pc = "returned" /\ AllTransportErrors) =>
        /\ Len(outcomes) = max_retries
        /\ get_ret.kind = "resp"
        /\ get_ret.status = 599
        /\ get_ret.body.len = 0
        /\ get_ret.suspected_block = "true"

C2_Witness ==
    /\ get_pc = "returned"
    /\ Len(outcomes) = 3
    /\ AllTransportErrors
    /\ get_ret.status = 599

(***************************************************************************)
(* Claims about HybridScraper.fetch_html                                   *)
(***************************************************************************)
Calls(log, what) == Cardinality({i \in 1..Len(log) : log[i] = what})

Usable(b) ==
    /\ b.kind = "resp"
    /\ b.suspected_block # "true"
    /\ b.status = 200
    /\ b.body.len >= 300
    /\ \A p \in b.body.frags : \A s \in Hybrid_signals : ~InPhrase(s, LowerPhrase(p))

\* C6: in auto mode, for a url whose normalized domain is no hard domain,
\* fetch_html calls base.get exactly once and first; it takes the browser
\* path exactly when the HTTP result is not usable (no result at all,
\* flagged suspected-block, status other than 200, shorter than 300
\* characters, or holding a block signal); a usable result's document is
\* returned without any browser call.
C6_HttpFirstBrowserIffUnusable ==
    (h_call.n > 0 /\ h_call.mode = "auto"
        /\ normalize_domain(h_call.url) \notin hard_domains) =>
        /\ ~h_call.raised
        /\ Calls(h_log, "base.get") = 1
        /\ h_log[1] = "base.get"
        /\ (Calls(h_log, "fetch_with_browser") = 1) <=> ~Usable(h_call.b)
        /\ (browser # "none" =>
               ((Calls(h_log, "browser.fetch_html") = 1) <=> ~Usable(h_call.b)))
        /\ Usable(h_call.b) =>
               /\ h_ret = Soup(h_call.b.body)
               /\ h_log = <<"base.get">>

\* both branches happen: a 300-character clean page is returned as is
C6_Witness ==
    /\ h_call.mode = "auto"
    /\ normalize_domain(h_call.url) \notin hard_domains
    /\ h_call.b = Resp(200, EdgeBody, Absent, "false")
    /\ h_ret = Soup(EdgeBody)
    /\ h_log = <<"base.get">>
    /\ browser = "live"
    /\ h_prev = "none"

(***************************************************************************)
(* The inputs of process_item                                              *)
(***************************************************************************)
FeedSummary == <<"Feed summary">>

ItemEntries ==
    {Entry(l, t, sm, None, None) :
         l \in {LinkPlate, LinkRoot, LinkReport},
         t \in {None, <<" ">> \o FloodTitle, <<"&nbsp;">>,
                Placeholder \o <<" ">>},
         sm \in {None, FeedSummary}}
    \cup {Entry(LinkRoot, None, None, FeedSummary, None)}

ItemParsed ==
    {ParserRaised, ParsedFalsy, ParsedNonDict}
    \cup {Parsed("dict", t, b, a[1], a[2], sm) :
              t \in {None, <<>>, <<"Parsed title">>, Placeholder,
                     Placeholder \o <<" ">>, NonStr},
              b \in {None, <<"Parsed body">>},
              a \in {<<None, None>>, <<<<"Author">>, <<"2025-01-01">>>>},
              sm \in {None, <<"Parsed summary">>}}

\* run_single_cycle at line 401, collect having returned one item of bbc
ItemInit ==
    /\ \E mode \in allowed_modes :
           PORTALS = [bbc |-> [ValidBbc EXCEPT !.scrape_mode = mode],
                      prothomalo |-> ValidProthomalo]
    /\ PARSERS \in {{}, {"bbc"}}
    /\ \E e \in ItemEntries :
           /\ results = <<entry_to_item("bbc", e)>>
           /\ todo = results
           /\ seen_links = {results[1].link}
           /\ emitted = <<results[1].link>>
    /\ run_pc = "processing"
    /\ cycle = 1
    /\ db_inits = 1
    /\ feeds_left = <<>>
    /\ entries = <<>>
    /\ cur_portal = "prothomalo"
    /\ dropped = [seen |-> {}, unusable |-> FALSE]
    /\ stats = [NoStats EXCEPT !.total = 1]
    /\ fetch_calls = 0
    /\ store = <<>>
    /\ item_log = <<>>
    /\ emitted_stats = NoStats

(***************************************************************************)
(* The fetch service: its public operations called in any order, the       *)
(* shared browser released under it, and one item processed through it     *)
(***************************************************************************)
\* what _BASE.get gives fetch_html: its exception, the fabricated response,
\* or a response it has flagged
ServiceBaseOutcomes ==
    {TransportError, Dummy, Resp(200, CleanBody, Absent, "false"),
     Resp(200, WafBody, Absent, "true")}

\* what _BASE.get gives the fetch_html of lines 252 and 263
ServiceFallbackOutcomes ==
    {TransportError, Resp(200, CleanBody, Absent, "false"),
     Resp(200, WafBody, Absent, "true")}

ServiceBrowserOutcomes ==
    {[kind |-> "html", body |-> CleanBody], [kind |-> "none", body |-> EmptyBody]}

\* three configurations: two hybrid sources; a browser source and an
\* rss_only one; a simple source and a disabled one
ServicePortals ==
    {[bbc |-> [ValidBbc EXCEPT !.scrape_mode = "hybrid"],
      prothomalo |-> ValidProthomalo],
     [bbc |-> [ValidBbc EXCEPT !.scrape_mode = "browser"],
      prothomalo |-> [ValidProthomalo EXCEPT !.scrape_mode = "rss_only"]],
     [bbc |-> ValidBbc,
      prothomalo |-> [ValidProthomalo EXCEPT !.enabled = "false"]]}

GoodParse ==
    Parsed("dict", <<"Parsed title">>, <<"Parsed body">>, None, None, None)

ServiceSources == {"bbc", "prothomalo", "unknown"}

ServiceUrls == {LinkPlate, LinkReport}

\* the module after its import: no browser, no selector
ServiceStart ==
    /\ playwright \in BOOLEAN
    /\ BROWSER = 0
    /\ HYBRID_BY_PORTAL = <<>>
    /\ instances = <<>>
    /\ svc_op = "none"
    /\ svc_call = NoSvcCall
    /\ exit_call = NoExit
    /\ shutdown_call = NoShutdown

\* no cycle runs
ServiceInit ==
    /\ PORTALS \in ServicePortals
    /\ PARSERS = {"bbc", "prothomalo"}
    /\ seen_links = {}
    /\ run_pc = "off"
    /\ cycle = 0
    /\ db_inits = 0
    /\ feeds_left = <<>>
    /\ entries = <<>>
    /\ cur_portal = ""
    /\ results = <<>>
    /\ emitted = <<>>
    /\ dropped = [seen |-> {}, unusable |-> FALSE]
    /\ todo = <<>>
    /\ stats = NoStats
    /\ fetch_calls = 0
    /\ store = <<>>
    /\ item_log = <<>>
    /\ emitted_stats = NoStats

SpecServiceInit ==
    GetIdle /\ HybIdle /\ ServiceInit /\ ServiceStart /\ ExtIdle

ServiceNext ==
    \/ \E portal \in ServiceSources, url \in ServiceUrls,
          launch \in {"ok", "raises"}, b \in ServiceBaseOutcomes,
          w \in ServiceBrowserOutcomes, b2 \in ServiceFallbackOutcomes :
           FetchArticleSoup(portal, url, launch, b, w, b2)
    \/ \E fail \in ExitFailures : BrowserExit(fail)
    \/ \E fail \in ExitFailures, exc \in ExitExceptions : Shutdown(fail, exc)

SpecService == SpecServiceInit /\ [][ServiceNext]_vars

\* two threads call fetch_article_soup for the sources of the configuration
ThreadsInit == GetIdle /\ HybIdle /\ ServiceInit /\ SvcIdle /\ ExtIdle

ThreadsNext ==
    \/ \E t \in Threads, portal \in ServiceSources : ThreadCalls(t, portal)
    \/ \E t \in Threads : ThreadGetHybrid(t)
    \/ \E t \in Threads : ThreadGetBrowser(t)
    \/ \E t \in Threads, fail \in EnterFailures : ThreadEnter(t, fail)
    \/ \E t \in Threads : ThreadMakeHybrid(t)
    \/ \E t \in Threads, viaBrowser \in BOOLEAN : ThreadFetch(t, viaBrowser)
    \/ \E t \in Threads : ThreadReturns(t)

SpecThreads == ThreadsInit /\ [][ThreadsNext]_vars

\* run_single_cycle at line 401, collect having returned one item of bbc
PipelineInit ==
    /\ \E m \in allowed_modes :
           PORTALS = [bbc |-> [ValidBbc EXCEPT !.scrape_mode = m],
                      prothomalo |-> ValidProthomalo]
    /\ PARSERS = {"bbc", "prothomalo"}
    /\ \E l \in ServiceUrls, t \in {FloodTitle, None} :
           /\ results = <<entry_to_item("bbc", Entry(l, t, FeedSummary, None,
                                                    None))>>
           /\ todo = results
           /\ seen_links = {results[1].link}
           /\ emitted = <<results[1].link>>
    /\ run_pc = "processing"
    /\ cycle = 1
    /\ db_inits = 1
    /\ feeds_left = <<>>
    /\ entries = <<>>
    /\ cur_portal = "prothomalo"
    /\ dropped = [seen |-> {}, unusable |-> FALSE]
    /\ stats = [NoStats EXCEPT !.total = 1]
    /\ fetch_calls = 0
    /\ store = <<>>
    /\ item_log = <<>>
    /\ emitted_stats = NoStats

SpecPipelineInit ==
    GetIdle /\ HybIdle /\ PipelineInit /\ ServiceStart /\ ExtIdle

PipelineNext ==
    \/ \E launch \in {"ok", "raises"}, b \in ServiceBaseOutcomes,
          w \in ServiceBrowserOutcomes, b2 \in ServiceFallbackOutcomes,
          pr \in {GoodParse, ParserRaised}, ok \in BOOLEAN :
           ProcessItemFetching(launch, b, w, b2, pr, ok)
    \/ EmitStats

SpecPipeline == SpecPipelineInit /\ [][PipelineNext]_vars

(***************************************************************************)
(* Specifications of the runner                                            *)
(***************************************************************************)
\* process_item on one collected item
SpecItemInit == GetIdle /\ HybIdle /\ SvcIdle /\ ItemInit /\ ExtIdle

ItemNext ==
    \/ \E f \in FetchOutcomes, pr \in ItemParsed, ok \in BOOLEAN :
           ProcessItem(f, pr, ok)
    \/ EmitStats

SpecItem == SpecItemInit /\ [][ItemNext]_vars

\* one process: run_single_cycle, repeated by run_loop
CycleInit == GetIdle /\ HybIdle /\ SvcIdle /\ RunInit /\ ExtIdle

CycleNext ==
    \/ RunValidate
    \/ RunInitDb
    \/ CollectStart
    \/ \E feed \in CycleFeeds : CollectLoadFeed(feed)
    \/ CollectEntry
    \/ CollectDone
    \/ \E f \in FetchOutcomes, pr \in CycleParsed, ok \in BOOLEAN :
           ProcessItem(f, pr, ok)
    \/ EmitStats
    \/ NextCycle

SpecCycle == CycleInit /\ [][CycleNext]_vars

\* the interval arguments of the model: none, zero, one or two minutes,
\* and a negative number
MainIntervals == {NoInterval, Interval(0), Interval(1), Interval(2), Interval(0 - 1)}

MainPortals ==
    {[bbc |-> ValidBbc, prothomalo |-> ValidProthomalo],
     [bbc |-> ValidBbc,
      prothomalo |-> [ValidProthomalo EXCEPT !.scrape_mode = "selenium"]]}

MainFeeds == {<<>>, <<Entry(LinkPlate, FloodTitle, None, None, None)>>}

\* the process at the call of main()
MainInit ==
    /\ GetIdle
    /\ HybIdle
    /\ SvcIdle
    /\ PORTALS \in MainPortals
    /\ PARSERS = {"bbc"}
    /\ seen_links = {}
    /\ run_pc = "off"
    /\ cycle = 0
    /\ db_inits = 0
    /\ feeds_left = <<>>
    /\ entries = <<>>
    /\ cur_portal = ""
    /\ results = <<>>
    /\ emitted = <<>>
    /\ dropped = [seen |-> {}, unusable |-> FALSE]
    /\ todo = <<>>
    /\ stats = NoStats
    /\ fetch_calls = 0
    /\ store = <<>>
    /\ item_log = <<>>
    /\ emitted_stats = NoStats
    /\ bf_pc = "idle"
    /\ bf_page = FALSE
    /\ bf_max_retries = 2
    /\ bf_attempt = 0
    /\ bf_sleeps = <<>>
    /\ bf_outcomes = <<>>
    /\ bf_ret = NoHtml
    /\ main_pc = "start"
    /\ interval \in MainIntervals
    /\ loop_sleeps = <<>>
    /\ threads = [t \in Threads |-> NoThreadCall]

MainNext ==
    \/ MainParse
    \/ RunValidate
    \/ RunInitDb
    \/ CollectStart
    \/ \E feed \in MainFeeds : CollectLoadFeed(feed)
    \/ CollectEntry
    \/ CollectDone
    \/ \E f \in FetchOutcomes, pr \in CycleParsed, ok \in BOOLEAN :
           ProcessItem(f, pr, ok)
    \/ EmitStats
    \/ MainSingleReturns
    \/ LoopSleep
    \/ MainCycleRaises

SpecMain == MainInit /\ [][MainNext]_vars


(***************************************************************************)
(* Properties of collect                                                   *)
(***************************************************************************)
\* C3: within one collect() call no two emitted items have the same link,
\* and no emitted item has a link that is absent, empty or only white space
C3_NoDuplicateOrEmptyLink ==
    \A i \in 1..Len(results) :
        /\ results[i].link # None
        /\ strip(results[i].link) # <<>>
        /\ \A j \in 1..Len(results) :
               i # j => results[i].link # results[j].link

\* the first collect() has returned two items after it dropped an entry
\* without a usable link and a second listing of an emitted link
C3_Witness ==
    /\ run_pc = "processing"
    /\ cycle = 1
    /\ dropped.unusable
    /\ LinkPlate \in dropped.seen
    /\ Len(results) = 2

\* C4: a link is marked seen when collect() accepts it, and no collect() of
\* the process emits it a second time, whatever became of its processing
C4_EmittedOnceAndSeen ==
    /\ \A i \in 1..Len(emitted) : seen(seen_links, emitted[i])
    /\ \A i, j \in 1..Len(emitted) : i # j => emitted[i] # emitted[j]

\* the second cycle dropped a link that the first cycle emitted and whose
\* insert into the store failed
C4_Witness ==
    /\ cycle = 2
    /\ run_pc = "processing"
    /\ LinkPlate \in dropped.seen
    /\ \E k \in 1..Len(item_log) :
           /\ item_log[k].item.link = LinkPlate
           /\ item_log[k].out.result = "skipped"
           /\ item_log[k].ok = "false"

(***************************************************************************)
(* Properties of run_single_cycle                                          *)
(***************************************************************************)
\* C7: no failure on an item ends the cycle: process_item raises on no
\* item, and a cycle that ends has brought every collected item to saved
\* or skipped and emitted that in its statistics
C7_NoItemErrorEndsTheCycle ==
    /\ run_pc # "aborted"
    /\ run_pc = "done" =>
           /\ emitted_stats.total = Len(results)
           /\ emitted_stats.saved + emitted_stats.skipped = Len(results)

\* an entry of PORTALS without a mode or with an unrecognized one, or with
\* a feed-URL or hard-domain field that is no list
C8_InvalidConfig ==
    \E pid \in DOMAIN PORTALS :
        \/ PORTALS[pid].scrape_mode = Missing
        \/ PORTALS[pid].scrape_mode
               \notin {"simple", "hybrid", "browser", "rss_only"}
        \/ PORTALS[pid].rss.kind \in {"nonlist", "missing"}
        \/ PORTALS[pid].hard_domains.kind = "nonlist"

\* C8: with a structurally invalid configuration run_single_cycle raises
\* before the store is initialized, before any feed is collected or any
\* link marked seen, and before any article is fetched
C8_InvalidConfigRaisesFirst ==
    C8_InvalidConfig =>
        /\ run_pc \in {"start", "config_error"}
        /\ db_inits = 0
        /\ seen_links = {}
        /\ emitted = <<>>
        /\ results = <<>>
        /\ fetch_calls = 0
        /\ store = <<>>
        /\ item_log = <<>>

\* run_single_cycle has raised on a hard_domains field that is no list
C8_Witness ==
    /\ run_pc = "config_error"
    /\ PORTALS["prothomalo"].hard_domains.kind = "nonlist"
    /\ db_inits = 0

(***************************************************************************)
(* Properties of process_item                                              *)
(***************************************************************************)
\* the call of fetch_article_soup raised, or it gave a document and the
\* parser raised
FetchOrParserRaised(L) ==
    \/ L.f = "exc"
    \/ L.f = "soup" /\ L.pr.kind = "exc"

\* the insert_news call of an item that is resolved from the feed alone
FeedOnlyInsert(item) ==
    Insert(item.source, item.link, derive_title(item), None, None,
           item.rss_date, None, None, rss_summary_of(item))

IsPlaceholder(title) == strip(title) \in {<<"Sorry, you have been blocked">>}

\* C9: when the fetch raises, or the parser raises on a fetched document,
\* process_item does not raise; the item is resolved from the feed (title
\* the feed-derived title, summary the feed summary, no body, author or
\* article date) and goes on to the placeholder guard, the validation and
\* the store
C9_FetchAndParserCrashFallBack ==
    \A k \in 1..Len(item_log) :
        LET L == item_log[k]
            ft == derive_title(L.item)
        IN  FetchOrParserRaised(L) =>
                /\ L.out.result \in {"saved", "skipped"}
                /\ L.out.r_title = ft
                /\ L.out.r_summary = rss_summary_of(L.item)
                /\ L.out.r_body = None
                /\ L.out.r_author = None
                /\ L.out.r_date = None
                /\ IF Truthy(ft) /\ ~IsPlaceholder(ft)
                   THEN /\ L.out.insert = FeedOnlyInsert(L.item)
                        /\ L.out.result = "saved" <=> L.ok = "true"
                   ELSE /\ L.out.insert = NoInsert
                        /\ L.out.result = "skipped"

\* the parser raised on a fetched document and the item was saved with its
\* feed title
C9_Witness ==
    \E k \in 1..Len(item_log) :
        /\ item_log[k].f = "soup"
        /\ item_log[k].pr.kind = "exc"
        /\ item_log[k].out.result = "saved"
        /\ item_log[k].out.insert.title = FloodTitle
        /\ item_log[k].out.insert.content = None

\* the source of the item has mode rss_only or no registered parser
NoHtmlAttempt(L) ==
    \/ PortalCfg(PORTALS, L.item.source).scrape_mode = "rss_only"
    \/ L.item.source \notin PARSERS

\* C10 as stated: for a source of mode rss_only or without a parser the
\* Fetch Service is never called, and an item with a feed-derived title is
\* stored with that title, no body, the feed summary and no topic
C10_FeedOnlyAlwaysStored ==
    \A k \in 1..Len(item_log) :
        LET L == item_log[k] IN
        NoHtmlAttempt(L) =>
            /\ ~L.out.fetched
            /\ Truthy(derive_title(L.item)) =>
                   L.out.insert = FeedOnlyInsert(L.item)

\* C10: for a source of mode rss_only or without a parser the Fetch
\* Service is never called; an item whose feed-derived title is not the
\* block placeholder is passed to the store with that title, no body, the
\* feed summary and no topic; one whose feed-derived title is the block
\* placeholder is skipped and nothing is passed to the store
C10_FeedOnlyStoredUnlessPlaceholder ==
    \A k \in 1..Len(item_log) :
        LET L == item_log[k]
            ft == derive_title(L.item)
        IN  NoHtmlAttempt(L) =>
                /\ ~L.out.fetched
                /\ ~L.out.parsed
                /\ fetch_calls = 0
                /\ (Truthy(ft) /\ ~IsPlaceholder(ft)) =>
                       /\ L.out.insert = FeedOnlyInsert(L.item)
                       /\ L.out.result = "saved" <=> L.ok = "true"
                /\ (Truthy(ft) /\ IsPlaceholder(ft)) =>
                       /\ L.out.insert = NoInsert
                       /\ L.out.result = "skipped"

\* an item of a source of mode rss_only without a parser is saved with the
\* feed title "Flood warning issued", no body and no topic
C10_Witness ==
    /\ PORTALS["bbc"].scrape_mode = "rss_only"
    /\ PARSERS = {}
    /\ \E k \in 1..Len(item_log) :
           /\ item_log[k].item.title = FloodTitle
           /\ item_log[k].out.result = "saved"
           /\ item_log[k].out.insert.title = FloodTitle
           /\ item_log[k].out.insert.content = None
           /\ item_log[k].out.insert.topic = None
           /\ store = <<item_log[k].out.insert>>

\* C11: when the parser gives the block placeholder as title, the parsed
\* title and body are dropped and the item goes to the store with the
\* feed-derived title, the feed summary and no body; when the feed-derived
\* title is the placeholder too, or there is none, the item is skipped and
\* nothing goes to the store
C11_PlaceholderTitleFallsBackToFeed ==
    \A k \in 1..Len(item_log) :
        LET L == item_log[k]
            ft == derive_title(L.item)
        IN  (L.pr.kind = "dict" /\ L.pr.title = Placeholder) =>
                IF Truthy(ft) /\ ft # Placeholder
                THEN /\ L.out.insert # NoInsert
                     /\ L.out.insert.title = ft
                     /\ L.out.insert.content = None
                     /\ L.out.insert.summary = rss_summary_of(L.item)
                     /\ L.out.result = "saved" <=> L.ok = "true"
                ELSE /\ L.out.insert = NoInsert
                     /\ L.out.result = "skipped"

\* the parser gave the placeholder title and a body, and the item was saved
\* with its feed title and without body
C11_Witness ==
    \E k \in 1..Len(item_log) :
        /\ item_log[k].pr.kind = "dict"
        /\ item_log[k].pr.title = Placeholder
        /\ item_log[k].pr.body = <<"Parsed body">>
        /\ item_log[k].out.result = "saved"
        /\ item_log[k].out.insert.title = FloodTitle
        /\ item_log[k].out.insert.content = None

\* no document was obtained for the item
NoDocument(L) == L.f \in {"unused", "none", "exc"}

\* C12: an item with link .../news/poison-the-plate-4044126, no feed title
\* and no feed summary, for which no HTML was fetched, gets the title
\* "Poison the plate"
C12_SlugTitleIsPoisonThePlate ==
    \A k \in 1..Len(item_log) :
        LET L == item_log[k] IN
        (/\ L.item.link = LinkPlate
         /\ L.item.title = None
         /\ L.item.summary = None
         /\ NoDocument(L)
         /\ L.out.insert # NoInsert) =>
            L.out.insert.title = <<"Poison", " ", "the", " ", "plate">>

\* the slug title of each link of the model, written out
SlugOf(link) ==
    CASE link = LinkPlate ->
             <<"Poison", " ", "the", " ", "plate", " ", "4044126">>
      [] link = LinkReport -> <<"Flood", " ", "report">>
      [] OTHER -> None

NonBlank(v) == v # None /\ strip(v) # <<>>

\* the first non-blank of feed title, feed summary and feed description,
\* else the slug of the link
ChainTitle(item) ==
    IF NonBlank(item.title) THEN strip(item.title)
    ELSE IF NonBlank(item.summary) THEN strip(item.summary)
    ELSE IF NonBlank(item.description) THEN strip(item.description)
    ELSE SlugOf(item.link)

\* no HTML was attempted, no document was obtained, or the parse gave no
\* title
NoParsedTitle(L) ==
    \/ NoDocument(L)
    \/ L.pr.kind \in {"exc", "falsy"}
    \/ L.pr.kind = "dict" /\ ~Truthy(L.pr.title)

\* C13: when the HTML resolution leaves no title, the title used is the
\* first non-blank of feed title, feed summary and feed description, and
\* the slug of the last path segment of the link only when all three are
\* blank
C13_TitleFallbackChain ==
    \A k \in 1..Len(item_log) :
        LET L == item_log[k] IN
        (NoParsedTitle(L) /\ L.out.result # "raised") =>
            /\ L.out.r_title = ChainTitle(L.item)
            /\ L.out.insert # NoInsert =>
                   L.out.insert.title = ChainTitle(L.item)

\* an item without feed title and summary whose link ends in
\* flood_report.html was saved under the title "Flood report"
C13_Witness ==
    \E k \in 1..Len(item_log) :
        /\ item_log[k].item.title = None
        /\ item_log[k].item.summary = None
        /\ item_log[k].item.link = LinkReport
        /\ item_log[k].out.result = "saved"
        /\ item_log[k].out.insert.title = <<"Flood", " ", "report">>

(***************************************************************************)
(* The fetch service behind process_item                                   *)
(***************************************************************************)
\* the item of the last process_item call was fetched for a hybrid source
\* with a parser, the selector judged the HTTP result blocked and the
\* browser gave no document
BlockedEverywhere(L) ==
    /\ L.out.fetched
    /\ L.item.source \in PARSERS
    /\ PortalCfg(PORTALS, L.item.source).scrape_mode = "hybrid"
    /\ Has(svc_call.events, "base.get")
    /\ svc_call.sel = "none"

\* C14: for a hybrid source with a parser, when the selector judged the
\* HTTP result blocked and the browser gave no document either, the parser
\* is not called and the item carries the feed title, the feed summary and
\* no body
C14_BlockedContentIsNotParsed ==
    (svc_op = "process_item" /\ item_log # <<>>) =>
        LET L == item_log[Len(item_log)] IN
        BlockedEverywhere(L) =>
            /\ ~L.out.parsed
            /\ L.out.r_title = derive_title(L.item)
            /\ L.out.r_summary = rss_summary_of(L.item)
            /\ L.out.r_body = None

(***************************************************************************)
(* The fetch service: article_fetcher.py                                   *)
(***************************************************************************)
\* the mode fetch_article_soup resolves for the source of the last call
ModeOf(portal) ==
    IF PortalCfg(PORTALS, portal).scrape_mode = Missing THEN "simple"
    ELSE PortalCfg(PORTALS, portal).scrape_mode

\* the source of the last call is unknown, disabled or rss_only
ShortCircuited(portal) ==
    \/ portal \notin DOMAIN PORTALS
    \/ PortalCfg(PORTALS, portal).enabled = "false"
    \/ ModeOf(portal) = "rss_only"

\* the last call was made for an enabled hybrid or browser source and no
\* browser could be created for it: the import fails, or the selector of
\* the source holds no browser because the launch raised
BrowserCreationFailed ==
    /\ svc_op = "fetch"
    /\ ~ShortCircuited(svc_call.portal)
    /\ ModeOf(svc_call.portal) \in {"hybrid", "browser"}
    /\ \/ ~playwright
       \/ /\ svc_call.portal \in DOMAIN HYBRID_BY_PORTAL
          /\ HYBRID_BY_PORTAL[svc_call.portal].browser = 0

\* the call made a plain HTTP request
HttpAttempted ==
    Has(svc_call.events, "base.get") \/ Has(svc_call.events, "base.fetch_html")

\* C15: when no browser can be created, a fetch for an enabled hybrid or
\* browser source still makes a plain HTTP fetch of the URL
C15_BrowserFailureDegradesToHttp ==
    BrowserCreationFailed => HttpAttempted

RECURSIVE CountOf(_, _)
\* how many times what occurs in log
CountOf(log, what) ==
    IF log = <<>> THEN 0
    ELSE (IF Head(log) = what THEN 1 ELSE 0) + CountOf(Tail(log), what)

\* C16: in a fetch made through a selector, a hybrid source whose selector
\* returned None gets exactly one further _BASE.fetch_html, made last, and
\* what it gives is returned; a selector that returned a document is
\* followed by no further fetch; and a browser source whose selector
\* returned None gets no further fetch and None is returned
C16_OneLastHttpTryInAutoModeOnly ==
    (svc_op = "fetch" /\ svc_call.sel # "unused") =>
        LET ev == svc_call.events
            n == CountOf(ev, "base.fetch_html")
        IN  /\ (ModeOf(svc_call.portal) = "hybrid" /\ svc_call.sel = "none") =>
                   /\ n = 1
                   /\ ev[Len(ev)] = "base.fetch_html"
                   /\ Has(SubSeq(ev, 1, Len(ev) - 1), "hybrid.fetch_html")
                   /\ svc_call.ret = Base_fetch_html(svc_call.http).soup
            /\ svc_call.sel = "soup" =>
                   /\ n = 0
                   /\ svc_call.ret.kind = "soup"
                   /\ svc_call.http = NoResp
            /\ (ModeOf(svc_call.portal) = "browser" /\ svc_call.sel = "none") =>
                   /\ n = 0
                   /\ svc_call.ret = NoDoc

\* a hybrid source whose selector tried HTTP and the browser and returned
\* None got a document from the last plain fetch
C16_Witness ==
    /\ svc_op = "fetch"
    /\ ModeOf(svc_call.portal) = "hybrid"
    /\ svc_call.sel = "none"
    /\ Has(svc_call.events, "browser.fetch_html")
    /\ svc_call.ret.kind = "soup"

\* C17: a fetch for a source that is unknown, disabled or rss_only returns
\* None, makes no call at all (no HTTP request, no selector, no browser) and
\* leaves the shared browser, the selector cache, the instances and the
\* per-domain timestamps as they were
C17_ShortCircuitTouchesNothing ==
    [][(svc_op' = "fetch" /\ ShortCircuited(svc_call.portal)') =>
           /\ svc_call'.ret = NoDoc
           /\ svc_call'.events = <<>>
           /\ UNCHANGED <<BROWSER, HYBRID_BY_PORTAL, instances,
                          last_request_ts>>]_vars

\* a fetch for an rss_only source returned None while a shared browser and
\* a cached selector of another source were live
C17_Witness ==
    /\ svc_op = "fetch"
    /\ svc_call.portal \in DOMAIN PORTALS
    /\ ModeOf(svc_call.portal) = "rss_only"
    /\ svc_call.ret = NoDoc
    /\ BROWSER # 0
    /\ HYBRID_BY_PORTAL # <<>>

\* C18: whenever a fetch runs browser.fetch_html, the instance it runs on
\* passes the health check (page, context and browser handles not None)
C18_BrowserFetchOnlyOnHealthyBrowser ==
    (svc_op = "fetch" /\ svc_call.used # 0) => svc_call.used_healthy

\* C19: no call of shutdown raises, after each one _BROWSER is None and
\* _HYBRID_BY_PORTAL is empty, and a call that follows another shutdown
\* finds no browser and tears nothing down
C19_ShutdownIsSafeAndIdempotent ==
    svc_op = "shutdown" =>
        /\ ~shutdown_call.raised
        /\ BROWSER = 0
        /\ HYBRID_BY_PORTAL = <<>>
        /\ shutdown_call.again =>
               /\ shutdown_call.had = 0
               /\ shutdown_call.steps = <<>>

\* shutdown found a live browser whose page.close() raised, swallowed it
\* and left the instance cleared
C19_Witness ==
    /\ svc_op = "shutdown"
    /\ shutdown_call.had # 0
    /\ shutdown_call.steps = <<"storage_state", "page">>
    /\ ~shutdown_call.raised
    /\ instances[shutdown_call.had] = Cleared
    /\ BROWSER = 0

\* a shutdown that followed a shutdown of a live browser
C19_WitnessSecondCall ==
    /\ svc_op = "shutdown"
    /\ shutdown_call.again
    /\ instances # <<>>

(***************************************************************************)
(* The release of a BrowserScraper                                         *)
(***************************************************************************)
\* C20: a release of an entered BrowserScraper attempts to close page,
\* context, browser and playwright whichever step raises, and leaves all
\* four handles cleared
C20_ReleaseAttemptsEveryClose ==
    (svc_op = "exit" /\ exit_call.was = Entered) =>
        /\ \A c \in {"page", "context", "browser", "playwright"} :
               Has(exit_call.steps, c)
        /\ instances[exit_call.inst] = Cleared

(***************************************************************************)
(* BrowserScraper.fetch_html                                               *)
(***************************************************************************)
\* C21: on an entered browser fetch_html makes at most max_retries
\* attempts, never raises, backs off exactly once after each failed
\* attempt for a delay that strictly increases with the attempt number,
\* and returns None exactly when every one of the max_retries attempts
\* failed
C21_BoundedAttemptsIncreasingBackoff ==
    bf_page =>
        /\ bf_pc # "raised"
        /\ Len(bf_outcomes) <= bf_max_retries
        /\ Len(bf_sleeps) =
               Cardinality({k \in 1..Len(bf_outcomes) : NavFailed(bf_outcomes[k])})
        /\ \A k \in 1..Len(bf_sleeps) : NavFailed(bf_outcomes[k])
        /\ \A i, j \in 1..Len(bf_sleeps) : i < j => bf_sleeps[i] < bf_sleeps[j]
        /\ bf_pc = "returned" =>
               IF \A k \in 1..Len(bf_outcomes) : NavFailed(bf_outcomes[k])
               THEN bf_ret = NoHtml /\ Len(bf_outcomes) = bf_max_retries
               ELSE bf_ret = Html(bf_outcomes[Len(bf_outcomes)].body)

\* three attempts ended in a block page, a timeout and another error, the
\* back-offs were 2, 4 and 6 seconds and None was returned
C21_Witness ==
    /\ bf_page
    /\ bf_pc = "returned"
    /\ bf_ret = NoHtml
    /\ Len(bf_outcomes) = 3
    /\ bf_outcomes[1].body = CaptchaBody
    /\ bf_outcomes[2].kind = "timeout"
    /\ bf_outcomes[3].kind = "error"
    /\ bf_sleeps = <<2, 4, 6>>

(***************************************************************************)
(* The retry delays of BaseScraper.get                                     *)
(***************************************************************************)
\* attempt i of the call got a 403 or 429 and the loop went on
Throttled(i) ==
    /\ i <= Len(sleeps)
    /\ outcomes[i].kind = "resp"
    /\ outcomes[i].status \in {403, 429}

\* the header is a decimal number greater than zero
PositiveHeader(ra) ==
    /\ ra # Absent
    /\ ra # <<>>
    /\ ~IntRaises(ra)
    /\ IntVal(ra) > 0

\* C22 as stated: after a 403 or 429 a Retry-After of k > 0 seconds is
\* slept as it is, and the computed 4 x attempt is slept only when the
\* response has no Retry-After header
C22_ComputedBackoffOnlyWithoutHeader ==
    \A i \in 1..Len(sleeps) :
        Throttled(i) =>
            /\ PositiveHeader(outcomes[i].retry_after) =>
                   sleeps[i] = IntVal(outcomes[i].retry_after)
            /\ outcomes[i].retry_after # Absent =>
                   sleeps[i] # 4 * i

\* C22 amended: after a 403 or 429 a Retry-After of k > 0 seconds is slept
\* as it is, and the computed 4 x attempt is slept when the header is
\* absent, empty, zero or negative
C22_HeaderHonoredWhenPositive ==
    \A i \in 1..Len(sleeps) :
        Throttled(i) =>
            IF PositiveHeader(outcomes[i].retry_after)
            THEN sleeps[i] = IntVal(outcomes[i].retry_after)
            ELSE sleeps[i] = 4 * i

\* a 403 with Retry-After 5 was followed by a sleep of 5 seconds and a 429
\* with Retry-After 0 by the computed 8 seconds
C22_Witness ==
    /\ Len(sleeps) >= 2
    /\ outcomes[1].status = 403
    /\ outcomes[1].retry_after = <<"5">>
    /\ outcomes[2].status = 429
    /\ outcomes[2].retry_after = <<"0">>
    /\ sleeps[1] = 5
    /\ sleeps[2] = 8

\* attempt i got a 403 or 429 without a Retry-After header
ThrottledNoHeader(i) == Throttled(i) /\ outcomes[i].retry_after = Absent

\* C23: within one get call the delay slept after attempt k got a 403 or
\* 429 without a Retry-After header is 4 x k seconds, so of two such
\* attempts the later one is followed by the longer delay
C23_BackoffGrowsWithAttempt ==
    /\ \A k \in 1..Len(sleeps) : ThrottledNoHeader(k) => sleeps[k] = 4 * k
    /\ \A i, j \in 1..Len(sleeps) :
           (ThrottledNoHeader(i) /\ ThrottledNoHeader(j) /\ i < j) =>
               sleeps[i] < sleeps[j]

\* three 429 responses without the header in one call: 4, 8 and 12 seconds
C23_Witness ==
    /\ Len(sleeps) = 3
    /\ \A k \in 1..3 : ThrottledNoHeader(k) /\ outcomes[k].status = 429
    /\ sleeps = <<4, 8, 12>>

(***************************************************************************)
(* What BaseScraper.get and fetch_html hand back                           *)
(***************************************************************************)
\* the call returned after max_retries attempts none of which got a 200
Exhausted ==
    /\ get_pc = "returned"
    /\ Len(outcomes) = max_retries
    /\ \A i \in 1..Len(outcomes) :
           outcomes[i].kind = "exc" \/ outcomes[i].status # 200

\* the attempts of the call that received a response
Responded == {i \in 1..Len(outcomes) : outcomes[i].kind = "resp"}

C25_NoBodyGivesNone ==
    (/\ svc_op = "fetch"
     /\ Has(svc_call.events, "base.fetch_html")
     /\ svc_call.http.kind = "resp"
     /\ svc_call.http.body.len = 0) =>
        svc_call.ret = NoDoc

(***************************************************************************)
(* HybridScraper.fetch_html in simple mode                                 *)
(***************************************************************************)
\* C26: in simple mode fetch_html calls base.get only, never the browser,
\* and returns the document of whatever response base.get gave, flagged
\* or looking blocked as it may be
C26_SimpleModeReturnsWhateverHttpGot ==
    (h_call.n > 0 /\ h_call.mode = "simple") =>
        /\ ~h_call.raised
        /\ h_log = <<"base.get">>
        /\ h_call.b.kind = "resp" => h_ret = Soup(h_call.b.body)

(***************************************************************************)
(* Validation and merge in process_item                                    *)
(***************************************************************************)
\* nothing gives the item a title or a body: the feed fields are blank, the
\* link has no slug, and the parser was not called or gave neither
NothingToStore(L) ==
    /\ ChainTitle(L.item) = None
    /\ L.out.result # "raised"
    /\ \/ ~L.out.parsed
       \/ L.pr.kind \in {"exc", "falsy"}
       \/ L.pr.kind = "dict" /\ ~Truthy(L.pr.title) /\ ~Truthy(L.pr.body)

\* C27: every insert_news call carries a non-empty title or a non-empty
\* body, and an item that has neither is skipped without a call
C27_NothingEmptyIsStored ==
    /\ \A k \in 1..Len(store) :
           Truthy(store[k].title) \/ Truthy(store[k].content)
    /\ \A k \in 1..Len(item_log) :
           LET L == item_log[k] IN
           /\ L.out.insert # NoInsert =>
                  Truthy(L.out.insert.title) \/ Truthy(L.out.insert.content)
           /\ NothingToStore(L) =>
                  /\ L.out.insert = NoInsert
                  /\ L.out.result = "skipped"

\* a fetched and parsed item without feed title, feed summary, slug, parsed
\* title and parsed body was skipped and nothing was written
C27_Witness ==
    /\ store = <<>>
    /\ \E k \in 1..Len(item_log) :
           /\ item_log[k].item.link = LinkRoot
           /\ item_log[k].out.parsed
           /\ item_log[k].pr.kind = "dict"
           /\ NothingToStore(item_log[k])
           /\ item_log[k].out.result = "skipped"

\* C29: when a document was obtained and the parser returned a dict, the
\* merged title is the parsed title if non-empty, else the feed-derived
\* title; the body, the author and the article date are the parsed values;
\* the summary is the parsed summary if non-empty, else the feed summary;
\* and these are the values written unless the title is a block placeholder
C29_MergePrefersParsedFields ==
    \A k \in 1..Len(item_log) :
        LET L == item_log[k]
            o == L.out
        IN  (o.parsed /\ L.pr.kind = "dict") =>
                /\ o.r_title = IF Truthy(L.pr.title) THEN L.pr.title
                               ELSE derive_title(L.item)
                /\ o.r_body = L.pr.body
                /\ o.r_author = L.pr.author
                /\ o.r_date = L.pr.pub_date
                /\ o.r_summary = IF Truthy(L.pr.summary) THEN L.pr.summary
                                 ELSE rss_summary_of(L.item)
                /\ (o.insert # NoInsert /\ ~IsPlaceholder(o.r_title)) =>
                       /\ Truthy(o.r_title) => o.insert.title = o.r_title
                       /\ o.insert.content = o.r_body
                       /\ o.insert.author = o.r_author
                       /\ o.insert.article_pub_date = o.r_date
                       /\ o.insert.summary = o.r_summary

\* a parse with a title but without body and summary was saved with the
\* parsed title, no body and the feed summary
C29_Witness ==
    \E k \in 1..Len(item_log) :
        /\ item_log[k].out.parsed
        /\ item_log[k].pr.kind = "dict"
        /\ item_log[k].pr.title = <<"Parsed title">>
        /\ item_log[k].pr.body = None
        /\ item_log[k].pr.summary = None
        /\ item_log[k].pr.author = <<"Author">>
        /\ item_log[k].out.result = "saved"
        /\ item_log[k].out.insert.title = <<"Parsed title">>
        /\ item_log[k].out.insert.content = None
        /\ item_log[k].out.insert.summary = FeedSummary
        /\ item_log[k].out.insert.author = <<"Author">>

(***************************************************************************)
(* The statistics of a cycle                                               *)
(***************************************************************************)
\* the items collect returned for a source
ItemsOf(p) == {i \in 1..Len(results) : results[i].source = p}

\* C30: when a cycle completes, the SUMMARY it logs has total equal to the
\* number of items collect returned and to saved + skipped, every source of
\* an item has a line, and the line of a source has total equal to the
\* number of its items and to its saved + skipped
C30_EveryItemCountedOnce ==
    run_pc = "done" =>
        /\ emitted_stats = stats
        /\ stats.total = Len(results)
        /\ stats.total = stats.saved + stats.skipped
        /\ \A i \in 1..Len(results) : results[i].source \in DOMAIN stats.per
        /\ \A p \in DOMAIN stats.per :
               /\ stats.per[p].total = Cardinality(ItemsOf(p))
               /\ stats.per[p].total = stats.per[p].saved + stats.per[p].skipped

\* a completed cycle with items of which one was saved and one skipped
C30_Witness ==
    /\ run_pc = "done"
    /\ Len(results) >= 2
    /\ stats.saved >= 1
    /\ stats.skipped >= 1
    /\ stats.per["bbc"].total = Len(results)

(***************************************************************************)
(* The command line entry point                                            *)
(***************************************************************************)
\* C28: main() returns only when no interval argument was given, and then
\* after exactly one cycle; with an integer interval it keeps running
\* cycles and sleeps that many minutes after each one
C28_LoopsWheneverIntervalGiven ==
    /\ main_pc = "exited" => (~interval.present /\ cycle = 1)
    /\ \A k \in 1..Len(loop_sleeps) : loop_sleeps[k] = interval.minutes * 60
    /\ (interval.present /\ run_pc = "done" /\ cycle > 1) =>
           Len(loop_sleeps) = cycle - 1

(***************************************************************************)
(* The attempts of one BaseScraper.get call                                *)
(***************************************************************************)
\* attempt i ended in a transport exception or in a status other than 200,
\* 403 and 429
FailedOtherwise(i) ==
    \/ outcomes[i].kind = "exc"
    \/ outcomes[i].kind = "resp" /\ outcomes[i].status \notin {200, 403, 429}

\* C31: one get call issues at most max_retries (3) requests and none after
\* the first 200; after attempt k that ended in a transport exception or in
\* a non-200 status other than 403/429 it sleeps 2 x k seconds, and it makes
\* attempt k + 1 when k < max_retries
C31_BoundedAttemptsErrorBackoff ==
    /\ max_retries = 3
    /\ Len(outcomes) <= max_retries
    /\ \A i \in 1..Len(outcomes) :
           (outcomes[i].kind = "resp" /\ outcomes[i].status = 200) =>
               /\ i = Len(outcomes)
               /\ get_pc \in {"returned", "idle"}
    /\ \A k \in 1..Len(outcomes) :
           FailedOtherwise(k) =>
               /\ Len(sleeps) >= k
               /\ sleeps[k] = 2 * k
               /\ k < max_retries =>
                      \/ Len(outcomes) > k
                      \/ get_pc = "loop" /\ attempt = k + 1

\* a transport exception, a 500 and a second transport exception: 2, 4 and 6
\* seconds, three requests and the call returned
C31_Witness ==
    /\ get_pc = "returned"
    /\ Len(outcomes) = 3
    /\ outcomes[1].kind = "exc"
    /\ outcomes[2].kind = "resp" /\ outcomes[2].status = 500
    /\ outcomes[3].kind = "exc"
    /\ sleeps = <<2, 4, 6>>

\* the last attempt of the call received a 200
GotOk ==
    /\ outcomes # <<>>
    /\ outcomes[Len(outcomes)].kind = "resp"
    /\ outcomes[Len(outcomes)].status = 200

\* C32: when an attempt of get receives a 200, get returns that response at
\* once, without a sleep or a further attempt, status and body as received,
\* and with suspected-block set if and only if the lower-cased body
\* contains one of the fixed block-page signals
C32_OkReturnedAtOnceFlaggedIffBlockPage ==
    GotOk =>
        LET o == outcomes[Len(outcomes)] IN
        /\ get_pc \in {"returned", "idle"}
        /\ Len(sleeps) = Len(outcomes) - 1
        /\ get_ret.kind = "resp"
        /\ get_ret.status = 200
        /\ get_ret.body = o.body
        /\ get_ret.retry_after = o.retry_after
        /\ get_ret.suspected_block \in {"true", "false"}
        /\ get_ret.suspected_block = "true" <=>
               \E s \in Base_signals : InLower(s, o.body)

\* a 200 whose text says "Just a Moment" came at the second attempt: it is
\* returned with its text and flagged
C32_Witness ==
    /\ get_pc = "returned"
    /\ Len(outcomes) = 2
    /\ GotOk
    /\ outcomes[2].body = WafBody
    /\ get_ret.body = WafBody
    /\ get_ret.suspected_block = "true"

\* a 200 with a page of article text is returned unflagged
C32_WitnessClean ==
    /\ get_pc = "returned"
    /\ GotOk
    /\ get_ret.body = CleanBody
    /\ get_ret.suspected_block = "false"

(***************************************************************************)
(* The block-page scans of the two strategies                              *)
(***************************************************************************)
\* C33: for every html a navigation of BrowserScraper.fetch_html obtained,
\* BrowserScraper._is_block_page and BaseScraper._is_block_page give the
\* same verdict, so the html fetch_html returns is one the HTTP strategy
\* would not flag either
C33_BrowserScanAgreesWithHttpScan ==
    /\ \A i \in 1..Len(bf_outcomes) :
           bf_outcomes[i].kind = "content" =>
               (Browser_is_block_page(bf_outcomes[i].body)
                    <=> Base_is_block_page(bf_outcomes[i].body))
    /\ (bf_pc = "returned" /\ bf_ret.kind = "html") =>
           ~Base_is_block_page(bf_ret.body)

(***************************************************************************)
(* Domain normalization                                                    *)
(***************************************************************************)
\* the host lower-cased and without one leading "www.", nothing else changed
LeadingWwwStripped(h) ==
    LET l == lowerHost(h) IN
    IF l # <<>> /\ Head(l) = "www." THEN Tail(l) ELSE l

\* the selector took the browser path first
BrowserFirst == h_log # <<>> /\ h_log[1] = "fetch_with_browser"

\* C34: normalization lower-cases the host and strips one leading "www."
\* and changes nothing else, so in auto mode the selector goes to the
\* browser first exactly for the urls whose host equals a configured hard
\* domain up to letter case and a leading "www.", and never for a host that
\* differs from every configured hard domain otherwise
C34_SameDecisionIffSameDomain ==
    h_call.n > 0 =>
        /\ get_netloc(h_call.url) = LeadingWwwStripped(h_call.url)
        /\ (h_call.mode = "auto" /\ ~h_call.raised) =>
               \A raw \in HardDomainConfigs :
                   hard_domains = Hybrid_init_hard_domains(raw) =>
                       (BrowserFirst <=>
                            \E i \in 1..Len(raw) :
                                LeadingWwwStripped(raw[i])
                                    = LeadingWwwStripped(h_call.url))

(***************************************************************************)
(* collect and the seen state                                              *)
(***************************************************************************)
\* the links collect has emitted so far, over all cycles
EmittedLinks(e) == {e[i] : i \in 1..Len(e)}

\* C35: collect changes the seen state only by marking the link it emits:
\* a step that emits an item adds exactly that item's link, which was not
\* seen before; a step that drops an entry, as seen or for lack of a usable
\* link, marks nothing and emits nothing; no step removes a link, and the
\* seen state is the initial (empty) one plus exactly the links emitted
C35_SeenGrowsByEmittedLinksOnly ==
    [][/\ seen_links \subseteq seen_links'
       /\ seen_links' \ seen_links =
              IF run_pc = "collecting" /\ Len(results') = Len(results) + 1
              THEN {results'[Len(results')].link}
              ELSE {}
       /\ (run_pc = "collecting" /\ dropped' # dropped) =>
              seen_links' = seen_links /\ results' = results
       /\ seen_links' = EmittedLinks(emitted')]_vars

\* the second collect has returned: it emitted a new link, dropped a link
\* the first cycle had marked and dropped an entry without a usable link,
\* and the seen state holds the links of both cycles
C35_Witness ==
    /\ cycle = 2
    /\ run_pc = "processing"
    /\ Len(results) = 1
    /\ dropped.seen # {}
    /\ dropped.unusable
    /\ Len(emitted) = 2
    /\ seen_links = {emitted[1], emitted[2]}
    /\ results[1].link = emitted[2]

(***************************************************************************)
(* The shared browser and the cached selectors                             *)
(***************************************************************************)
\* the instances that still hold a handle
LiveInstances == {i \in 1..Len(instances) : instances[i] # Cleared}

\* C36: after any sequence of fetch_article_soup, __exit__ and shutdown
\* calls at most one browser instance is live, every cached selector holds
\* the current shared instance (none when there is none), and the selector
\* cached for a source carries that source's hard domains
C36_OneBrowserSharedByEverySelector ==
    /\ Cardinality(LiveInstances) <= 1
    /\ \A p \in DOMAIN HYBRID_BY_PORTAL :
           /\ HYBRID_BY_PORTAL[p].browser = BROWSER
           /\ HYBRID_BY_PORTAL[p].hard_domains =
                  Hybrid_init_hard_domains(hard_domains_of(PortalCfg(PORTALS, p)))

(***************************************************************************)
(* Concurrent callers and the acquisition of the browser                   *)
(***************************************************************************)
\* the threads with a navigation in progress on the page of instance i
NavigatingOn(i) ==
    {t \in Threads : threads[t].pc = "navigating" /\ threads[t].sel = i}

\* the BrowserScraper objects whose __enter__ returned
EnteredInstances == {i \in 1..Len(instances) : instances[i] = Entered}

\* C37: when callers invoke fetch_article_soup concurrently for hybrid- or
\* browser-mode sources, at most one browser instance is created and at
\* most one navigation is in progress on a page at any time
C37_SharedBrowserIsMutuallyExclusive ==
    /\ Cardinality(EnteredInstances) <= 1
    /\ \A i \in 1..Len(instances) : Cardinality(NavigatingOn(i)) <= 1

\* C40: when __enter__ raises after it started the driver, every handle it
\* had set is released and _BROWSER stays None: an object whose __enter__
\* did not return holds no driver, browser or context
C40_FailedAcquisitionReleasesEverything ==
    \A i \in 1..Len(instances) :
        instances[i] # Entered =>
            /\ BROWSER # i
            /\ instances[i] = Cleared

(***************************************************************************)
(* The store calls of process_item                                         *)
(***************************************************************************)
\* the processed items for which insert_news was called
Inserting == {k \in 1..Len(item_log) : item_log[k].out.insert # NoInsert}

\* C38: process_item calls insert_news at most once per item and always
\* with topic None; it returns True exactly when that call was made and
\* returned success, so an item skipped with a call is one whose insert
\* failed; an item that has nothing to store is skipped without a call
C38_OneInsertTopicAbsentSavedIffInserted ==
    /\ Len(store) = Cardinality(Inserting)
    /\ Len(store) <= Len(item_log)
    /\ \A i \in 1..Len(store) : store[i].topic = None
    /\ \A k \in 1..Len(item_log) :
           LET L == item_log[k] IN
           /\ L.out.insert # NoInsert => L.out.insert.topic = None
           /\ L.out.result = "saved" <=>
                  (L.out.insert # NoInsert /\ L.ok = "true")
           /\ (L.out.result = "skipped" /\ L.out.insert # NoInsert) =>
                  L.ok = "false"
           /\ NothingToStore(L) => L.out.insert = NoInsert

\* a parsed item went to insert_news once, with topic None, the call
\* returned failure and process_item returned False
C38_Witness ==
    /\ Len(item_log) = 1
    /\ Len(store) = 1
    /\ store[1].topic = None
    /\ store[1].title = <<"Parsed title">>
    /\ item_log[1].ok = "false"
    /\ item_log[1].out.result = "skipped"

\* a parsed item went to insert_news once and process_item returned True
C38_WitnessSaved ==
    /\ Len(item_log) = 1
    /\ store = <<item_log[1].out.insert>>
    /\ store[1].content = <<"Parsed body">>
    /\ item_log[1].ok = "true"
    /\ item_log[1].out.result = "saved"

\* the parser gave the placeholder title together with an author and a date
GuardFired(L) ==
    /\ L.out.parsed
    /\ L.pr.kind = "dict"
    /\ IsStr(L.pr.title)
    /\ strip(L.pr.title) \in BLOCK_PLACEHOLDER_TITLES

\* C39: when the placeholder guard fired and the item is stored from the
\* feed data, nothing of the blocked page is written: the author and the
\* article date of the insert_news call are None, as its body is
C39_NothingOfTheBlockedPageIsStored ==
    \A k \in 1..Len(item_log) :
        LET L == item_log[k] IN
        (GuardFired(L) /\ L.out.insert # NoInsert) =>
            /\ L.out.insert.content = None
            /\ L.out.insert.author = None
            /\ L.out.insert.article_pub_date = None

=============================================================================
